---- MODULE Spec2Model ----
(***************************************************************************)
(* kasir-api: the layered request pipeline (handler -> service ->          *)
(* repository -> PostgreSQL) for the two entities Category and Product.    *)
(*                                                                         *)
(* The store is the schema of README.md: two tables with SERIAL keys and   *)
(* products.category_id REFERENCES categories(id).  One SQL statement is   *)
(* one atomic step.  A request whose handler issues one statement is one   *)
(* action; a product POST/PUT issues two statements (the category lookup   *)
(* of ProductService, then the INSERT/UPDATE) and is two actions, so other *)
(* requests interleave between them.                                       *)
(***************************************************************************)
EXTENDS Integers, Sequences, FiniteSets, Bags, TLC

\* The in-memory variants of the server (the last section of the module) keep
\* their entities in package-level slices; their specifications use the same
\* variables: categories and products are then the slices, catSeq and prodSeq
\* the counters nextCategoryID and nextID, pending the POST requests with the
\* statement each of them has reached.
VARIABLES
    categories,   \* table categories: id -> [name, description]
    products,     \* table products:   id -> [name, price, stock, category_id]
    catSeq,       \* next value of the sequence behind categories.id (SERIAL)
    prodSeq,      \* next value of the sequence behind products.id (SERIAL)
    pending,      \* bag of the product POST/PUT requests between their two statements
    deletedCats,  \* history: the category ids whose DELETE succeeded
    deletedProds, \* history: the product ids whose DELETE succeeded
    last          \* history: the request that took the latest step, with its outcome

vars == <<categories, products, catSeq, prodSeq, pending, deletedCats, deletedProds, last>>

(***************************************************************************)
(* Bounds of the model.                                                    *)
(***************************************************************************)
MaxCatId == 2
MaxProdId == 2
MaxThreads == 2

CatIds == 1..MaxCatId
ProdIds == 1..MaxProdId

(***************************************************************************)
(* Errors.  A Go error value is modelled by its text.                      *)
(***************************************************************************)
NoErr == "nil"
ErrNotFound == "resource not found"
ErrCategoryNotFound == "category not found"
\* what database/sql hands back when the statement never reached the store
ErrBadConn == "driver: bad connection"
\* what lib/pq hands back when a statement breaks REFERENCES categories(id)
ErrForeignKey == "pq: violates foreign key constraint"

\* errors.Is on sentinel errors that wrap nothing
ErrorsIs(err, target) == err = target

(***************************************************************************)
(* Entities.                                                               *)
(***************************************************************************)
\* a nil pointer / nil slice / absent JSON member
Nil == [nil |-> TRUE]

\* domain.Category
Category(id, name, description) == [id |-> id, name |-> name, description |-> description]

\* domain.Product
Product(id, name, price, stock, category_id, category) == [id |-> id, name |-> name, price |-> price, stock |-> stock, category_id |-> category_id, category |-> category]

\* a row of table categories
CategoryRow(c) == [name |-> c.name, description |-> c.description]

\* a row of table products: the four columns the INSERT and the UPDATE write
ProductRow(p) == [name |-> p.name, price |-> p.price, stock |-> p.stock, category_id |-> p.category_id]

\* the category a scanned row of table categories becomes
ScanCategory(cats, id) == Category(id, cats[id].name, cats[id].description)

\* all orders in which a SELECT without ORDER BY may return the rows `ids`
RowOrders(ids) == {s \in [1..Cardinality(ids) -> ids] : \A i, j \in DOMAIN s : i # j => s[i] # s[j]}

(***************************************************************************)
(* Persistence layer: categoryRepository.  `up` is whether the statement   *)
(* reached the store; every operator returns the error and what the call   *)
(* leaves behind.                                                          *)
(***************************************************************************)
\* GetAll with the slice declared and never made: nil when no row is scanned
categoryRepository_GetAll_NilSlice(cats, up, order) ==
    IF ~up THEN [err |-> ErrBadConn, list |-> Nil]
    ELSE IF order = <<>> THEN [err |-> NoErr, list |-> Nil]
    ELSE [err |-> NoErr, list |-> [nil |-> FALSE, items |-> [i \in DOMAIN order |-> ScanCategory(cats, order[i])]]]

categoryRepository_GetAll(cats, up, order) ==
    IF ~up THEN [err |-> ErrBadConn, list |-> Nil]
    ELSE [err |-> NoErr, list |-> [nil |-> FALSE, items |-> [i \in DOMAIN order |-> ScanCategory(cats, order[i])]]]

\* Create that numbers the new row by the count of stored rows plus one
\* instead of drawing from the sequence
categoryRepository_Create_CountPlusOne(cats, seq, up, category) ==
    LET id == Cardinality(DOMAIN cats) + 1
    IN  IF ~up THEN [err |-> ErrBadConn, cats |-> cats, seq |-> seq, category |-> category]
        ELSE [err |-> NoErr, cats |-> (id :> CategoryRow(category)) @@ cats, seq |-> seq + 1, category |-> [category EXCEPT !.id = id]]

\* Create that does not scan the RETURNING id back into the category
categoryRepository_Create_IdNotScanned(cats, seq, up, category) ==
    IF ~up THEN [err |-> ErrBadConn, cats |-> cats, seq |-> seq, category |-> category]
    ELSE [err |-> NoErr, cats |-> (seq :> CategoryRow(category)) @@ cats, seq |-> seq + 1, category |-> category]

categoryRepository_Create(cats, seq, up, category) ==
    IF ~up THEN [err |-> ErrBadConn, cats |-> cats, seq |-> seq, category |-> category]
    ELSE [err |-> NoErr, cats |-> (seq :> CategoryRow(category)) @@ cats, seq |-> seq + 1, category |-> [category EXCEPT !.id = seq]]

categoryRepository_GetByID(cats, up, id) ==
    IF ~up THEN [err |-> ErrBadConn, category |-> Nil]
    ELSE IF id \notin DOMAIN cats THEN [err |-> ErrNotFound, category |-> Nil]
    ELSE [err |-> NoErr, category |-> ScanCategory(cats, id)]

\* UPDATE without its WHERE clause: every row is overwritten
categoryRepository_Update_NoWhere(cats, up, category) ==
    IF ~up THEN [err |-> ErrBadConn, cats |-> cats]
    ELSE IF category.id \notin DOMAIN cats THEN [err |-> ErrNotFound, cats |-> cats]
    ELSE [err |-> NoErr, cats |-> [i \in DOMAIN cats |-> CategoryRow(category)]]

categoryRepository_Update(cats, up, category) ==
    IF ~up THEN [err |-> ErrBadConn, cats |-> cats]
    ELSE IF category.id \notin DOMAIN cats THEN [err |-> ErrNotFound, cats |-> cats]
    ELSE [err |-> NoErr, cats |-> [cats EXCEPT ![category.id] = CategoryRow(category)]]

\* the schema without REFERENCES: no row counts as referenced
CategoryReferenced_NoConstraint(prods, id) == FALSE

\* REFERENCES categories(id) without ON DELETE: a referenced row cannot go
CategoryReferenced(prods, id) == \E p \in DOMAIN prods : prods[p].category_id = id

\* a store that removes the row and only then reports the reference to it
categoryRepository_Delete_ThenFail(cats, prods, up, id) ==
    IF ~up THEN [err |-> ErrBadConn, cats |-> cats]
    ELSE IF id \notin DOMAIN cats THEN [err |-> ErrNotFound, cats |-> cats]
    ELSE IF CategoryReferenced(prods, id) THEN [err |-> ErrForeignKey, cats |-> [i \in DOMAIN cats \ {id} |-> cats[i]]]
    ELSE [err |-> NoErr, cats |-> [i \in DOMAIN cats \ {id} |-> cats[i]]]

categoryRepository_Delete(cats, prods, up, id) ==
    IF ~up THEN [err |-> ErrBadConn, cats |-> cats]
    ELSE IF id \notin DOMAIN cats THEN [err |-> ErrNotFound, cats |-> cats]
    ELSE IF CategoryReferenced(prods, id) THEN [err |-> ErrForeignKey, cats |-> cats]
    ELSE [err |-> NoErr, cats |-> [i \in DOMAIN cats \ {id} |-> cats[i]]]

(***************************************************************************)
(* Persistence layer: productRepository.  Both reads are the inner JOIN of *)
(* products with categories.  A failed INSERT has already drawn its id     *)
(* from the sequence (nextval is not rolled back).                         *)
(***************************************************************************)
\* category_id INTEGER NOT NULL REFERENCES categories(id): what a written row must satisfy
ForeignKeyHolds(cats, category_id) == category_id \in DOMAIN cats

JoinedIds(cats, prods) == {p \in DOMAIN prods : prods[p].category_id \in DOMAIN cats}

\* the SELECT without its JOIN: the embedded category is left nil
ScanProduct_NoJoin(cats, prods, id) == Product(id, prods[id].name, prods[id].price, prods[id].stock, prods[id].category_id, Nil)

ScanProduct(cats, prods, id) == Product(id, prods[id].name, prods[id].price, prods[id].stock, prods[id].category_id, ScanCategory(cats, prods[id].category_id))

productRepository_GetAll(cats, prods, up, order) ==
    IF ~up THEN [err |-> ErrBadConn, list |-> Nil]
    ELSE [err |-> NoErr, list |-> [nil |-> FALSE, items |-> [i \in DOMAIN order |-> ScanProduct(cats, prods, order[i])]]]

\* Create that does not scan the RETURNING id back into the product
productRepository_Create_IdNotScanned(cats, prods, seq, up, product) ==
    IF ~up THEN [err |-> ErrBadConn, prods |-> prods, seq |-> seq, product |-> product]
    ELSE IF ~ForeignKeyHolds(cats, product.category_id) THEN [err |-> ErrForeignKey, prods |-> prods, seq |-> seq + 1, product |-> product]
    ELSE [err |-> NoErr, prods |-> (seq :> ProductRow(product)) @@ prods, seq |-> seq + 1, product |-> product]

\* Create against a table whose category_id column has no REFERENCES
productRepository_Create_NoForeignKey(cats, prods, seq, up, product) ==
    IF ~up THEN [err |-> ErrBadConn, prods |-> prods, seq |-> seq, product |-> product]
    ELSE [err |-> NoErr, prods |-> (seq :> ProductRow(product)) @@ prods, seq |-> seq + 1, product |-> [product EXCEPT !.id = seq]]

productRepository_Create(cats, prods, seq, up, product) ==
    IF ~up THEN [err |-> ErrBadConn, prods |-> prods, seq |-> seq, product |-> product]
    ELSE IF ~ForeignKeyHolds(cats, product.category_id) THEN [err |-> ErrForeignKey, prods |-> prods, seq |-> seq + 1, product |-> product]
    ELSE [err |-> NoErr, prods |-> (seq :> ProductRow(product)) @@ prods, seq |-> seq + 1, product |-> [product EXCEPT !.id = seq]]

\* GetByID whose JOIN matches the category on the product's own id
productRepository_GetByID_JoinOnId(cats, prods, up, id) ==
    IF ~up THEN [err |-> ErrBadConn, product |-> Nil]
    ELSE IF id \notin DOMAIN prods \cap DOMAIN cats THEN [err |-> ErrNotFound, product |-> Nil]
    ELSE [err |-> NoErr, product |-> ScanProduct(cats, prods, id)]

productRepository_GetByID(cats, prods, up, id) ==
    IF ~up THEN [err |-> ErrBadConn, product |-> Nil]
    ELSE IF id \notin JoinedIds(cats, prods) THEN [err |-> ErrNotFound, product |-> Nil]
    ELSE [err |-> NoErr, product |-> ScanProduct(cats, prods, id)]

\* Update as two statements' worth of columns, of which only the first ran
productRepository_Update_TwoColumns(cats, prods, up, product) ==
    IF ~up THEN [err |-> ErrBadConn, prods |-> prods]
    ELSE IF product.id \notin DOMAIN prods THEN [err |-> ErrNotFound, prods |-> prods]
    ELSE IF ~ForeignKeyHolds(cats, product.category_id) THEN [err |-> ErrForeignKey, prods |-> prods]
    ELSE [err |-> NoErr, prods |-> [prods EXCEPT ![product.id].name = product.name, ![product.id].price = product.price]]

\* Update that does not look at RowsAffected
productRepository_Update_NoRowsCheck(cats, prods, up, product) ==
    IF ~up THEN [err |-> ErrBadConn, prods |-> prods]
    ELSE IF product.id \notin DOMAIN prods THEN [err |-> NoErr, prods |-> prods]
    ELSE IF ~ForeignKeyHolds(cats, product.category_id) THEN [err |-> ErrForeignKey, prods |-> prods]
    ELSE [err |-> NoErr, prods |-> [prods EXCEPT ![product.id] = ProductRow(product)]]

productRepository_Update(cats, prods, up, product) ==
    IF ~up THEN [err |-> ErrBadConn, prods |-> prods]
    ELSE IF product.id \notin DOMAIN prods THEN [err |-> ErrNotFound, prods |-> prods]
    ELSE IF ~ForeignKeyHolds(cats, product.category_id) THEN [err |-> ErrForeignKey, prods |-> prods]
    ELSE [err |-> NoErr, prods |-> [prods EXCEPT ![product.id] = ProductRow(product)]]

\* Delete that does not look at RowsAffected
productRepository_Delete_NoRowsCheck(prods, up, id) ==
    IF ~up THEN [err |-> ErrBadConn, prods |-> prods]
    ELSE [err |-> NoErr, prods |-> [i \in DOMAIN prods \ {id} |-> prods[i]]]

productRepository_Delete(prods, up, id) ==
    IF ~up THEN [err |-> ErrBadConn, prods |-> prods]
    ELSE IF id \notin DOMAIN prods THEN [err |-> ErrNotFound, prods |-> prods]
    ELSE [err |-> NoErr, prods |-> [i \in DOMAIN prods \ {id} |-> prods[i]]]

(***************************************************************************)
(* Business layer.  CategoryService passes through.  ProductService looks  *)
(* the category up before Create and before Update; the lookup and the     *)
(* write are two statements, so each is an operator of its own.            *)
(***************************************************************************)
CategoryService_GetAll(cats, up, order) == categoryRepository_GetAll(cats, up, order)

CategoryService_Create(cats, seq, up, category) == categoryRepository_Create(cats, seq, up, category)

CategoryService_GetByID(cats, up, id) == categoryRepository_GetByID(cats, up, id)

CategoryService_Update(cats, up, category) == categoryRepository_Update(cats, up, category)

CategoryService_Delete(cats, prods, up, id) == categoryRepository_Delete(cats, prods, up, id)

ProductService_GetAll(cats, prods, up, order) == productRepository_GetAll(cats, prods, up, order)

ProductService_GetByID(cats, prods, up, id) == productRepository_GetByID(cats, prods, up, id)

ProductService_Delete(prods, up, id) == productRepository_Delete(prods, up, id)

\* the lookup of Create handing the repository's error on as it is
ProductService_Create_Lookup_Untranslated(cats, up, product) ==
    categoryRepository_GetByID(cats, up, product.category_id).err

\* "Validate category exists" of Create: the error it returns early, or nil
\* when it goes on to the write
ProductService_Create_Lookup(cats, up, product) ==
    LET r == categoryRepository_GetByID(cats, up, product.category_id)
    IN  IF r.err # NoErr
        THEN IF ErrorsIs(r.err, ErrNotFound) THEN ErrCategoryNotFound ELSE r.err
        ELSE NoErr

\* the tail of Create, reached when the lookup returned nil
ProductService_Create_Write(cats, prods, seq, up, product) == productRepository_Create(cats, prods, seq, up, product)

\* Create that tries the INSERT once more when it failed
ProductService_Create_Retrying(cats, prods, seq, up, product) ==
    LET e == ProductService_Create_Lookup(cats, up.lookup, product)
        r == ProductService_Create_Write(cats, prods, seq, up.write, product)
        again == ProductService_Create_Write(cats, r.prods, r.seq, up.write, product)
    IN  IF e # NoErr
        THEN [err |-> e, prods |-> prods, seq |-> seq, product |-> product, calls |-> <<"categoryRepository.GetByID">>]
        ELSE IF r.err # NoErr
        THEN [err |-> again.err, prods |-> again.prods, seq |-> again.seq, product |-> again.product, calls |-> <<"categoryRepository.GetByID", "productRepository.Create", "productRepository.Create">>]
        ELSE [err |-> r.err, prods |-> r.prods, seq |-> r.seq, product |-> r.product, calls |-> <<"categoryRepository.GetByID", "productRepository.Create">>]

\* Create as one call with nothing interleaved; up.lookup and up.write are
\* whether each of its statements reaches the store
ProductService_Create(cats, prods, seq, up, product) ==
    LET e == ProductService_Create_Lookup(cats, up.lookup, product)
        r == ProductService_Create_Write(cats, prods, seq, up.write, product)
    IN  IF e # NoErr
        THEN [err |-> e, prods |-> prods, seq |-> seq, product |-> product, calls |-> <<"categoryRepository.GetByID">>]
        ELSE [err |-> r.err, prods |-> r.prods, seq |-> r.seq, product |-> r.product, calls |-> <<"categoryRepository.GetByID", "productRepository.Create">>]

\* "Validate category exists" of Update
ProductService_Update_Lookup(cats, up, product) ==
    LET r == categoryRepository_GetByID(cats, up, product.category_id)
    IN  IF r.err # NoErr
        THEN IF ErrorsIs(r.err, ErrNotFound) THEN ErrCategoryNotFound ELSE r.err
        ELSE NoErr

\* the tail of Update, reached when the lookup returned nil
ProductService_Update_Write(cats, prods, up, product) == productRepository_Update(cats, prods, up, product)

\* Update that writes the product first and looks the category up afterwards
ProductService_Update_WriteFirst(cats, prods, up, product) ==
    LET r == ProductService_Update_Write(cats, prods, up.write, product)
        e == ProductService_Update_Lookup(cats, up.lookup, product)
    IN  IF r.err # NoErr
        THEN [err |-> r.err, prods |-> r.prods, calls |-> <<"productRepository.Update">>]
        ELSE [err |-> e, prods |-> r.prods, calls |-> <<"productRepository.Update", "categoryRepository.GetByID">>]

\* Update as one call with nothing interleaved
ProductService_Update(cats, prods, up, product) ==
    LET e == ProductService_Update_Lookup(cats, up.lookup, product)
        r == ProductService_Update_Write(cats, prods, up.write, product)
    IN  IF e # NoErr
        THEN [err |-> e, prods |-> prods, calls |-> <<"categoryRepository.GetByID">>]
        ELSE [err |-> r.err, prods |-> r.prods, calls |-> <<"categoryRepository.GetByID", "productRepository.Update">>]

(***************************************************************************)
(* Request layer: the response envelope, the path identifier and the JSON  *)
(* body.                                                                   *)
(***************************************************************************)
\* APIResponse written with the given status and payload
WriteJSON(status, data) == [status |-> status, success |-> TRUE, data |-> data, error |-> ""]

\* APIResponse written with the given status and error message
WriteError(status, message) == [status |-> status, success |-> FALSE, data |-> Nil, error |-> message]

\* no response written yet: the request is between its two statements
NoResponse == [status |-> 0, success |-> FALSE, data |-> Nil, error |-> ""]

StatusOK == 200
StatusCreated == 201
StatusBadRequest == 400
StatusNotFound == 404
StatusMethodNotAllowed == 405
StatusInternalServerError == 500
StatusServiceUnavailable == 503

\* a URL path is the route prefix followed by the characters after it
CategoryPrefix == "/api/categories/"
ProductPrefix == "/api/products/"

Digits == <<"0", "1", "2", "3", "4", "5", "6", "7", "8", "9">>

IsDigit(c) == \E d \in DOMAIN Digits : Digits[d] = c

DigitVal(c) == (CHOOSE d \in DOMAIN Digits : Digits[d] = c) - 1

RECURSIVE DigitsVal(_, _)
DigitsVal(s, acc) == IF s = <<>> THEN acc ELSE DigitsVal(Tail(s), acc * 10 + DigitVal(Head(s)))

\* strconv.Atoi: an optional sign, then one or more decimal digits
Atoi(s) ==
    LET signed == s # <<>> /\ s[1] \in {"+", "-"}
        digits == IF signed THEN Tail(s) ELSE s
    IN  IF digits = <<>> \/ \E i \in DOMAIN digits : ~IsDigit(digits[i])
        THEN [err |-> "strconv.Atoi: invalid syntax", n |-> 0]
        ELSE [err |-> NoErr, n |-> IF signed /\ s[1] = "-" THEN 0 - DigitsVal(digits, 0) ELSE DigitsVal(digits, 0)]

\* strings.TrimPrefix
TrimPrefix(path, prefix) == IF path # <<>> /\ path[1] = prefix THEN Tail(path) ELSE path

\* the identifier of Atoi used without looking at its error
parseIDFromPath_ErrorDropped(path, prefix) == [err |-> NoErr, n |-> Atoi(TrimPrefix(path, prefix)).n]

parseIDFromPath(path, prefix) == Atoi(TrimPrefix(path, prefix))

\* a JSON object: the members it has, and their values
Member(body, k, zero) == IF k \in body.has THEN body.val[k] ELSE zero

\* Decode whose error is not looked at: the category stays zero
DecodeCategory_ErrorDropped(body) ==
    IF ~body.wellFormed THEN [err |-> NoErr, category |-> Category(0, "", "")]
    ELSE [err |-> NoErr, category |-> Category(Member(body, "id", 0), Member(body, "name", ""), Member(body, "description", ""))]

\* json.Decoder.Decode into a zero domain.Category: absent members stay zero
DecodeCategory(body) ==
    IF ~body.wellFormed THEN [err |-> "invalid character", category |-> Category(0, "", "")]
    ELSE [err |-> NoErr, category |-> Category(Member(body, "id", 0), Member(body, "name", ""), Member(body, "description", ""))]

\* json.Decoder.Decode into a zero domain.Product: absent members stay zero
DecodeProduct(body) ==
    IF ~body.wellFormed THEN [err |-> "invalid character", product |-> Product(0, "", 0, 0, 0, Nil)]
    ELSE [err |-> NoErr, product |-> Product(Member(body, "id", 0), Member(body, "name", ""), Member(body, "price", 0), Member(body, "stock", 0), Member(body, "category_id", 0), Member(body, "category", Nil))]

(***************************************************************************)
(* The requests the model sends.                                           *)
(***************************************************************************)
\* the single decimal digit of a small identifier
Itoa(i) == <<Digits[i + 1]>>

\* what follows the route prefix: the identifiers, and text that is no integer
PathTails(ids) == {Itoa(i) : i \in ids} \cup {<<"x">>}

CategoryPaths == {<<CategoryPrefix>> \o t : t \in PathTails(CatIds)}

ProductPaths == {<<ProductPrefix>> \o t : t \in PathTails(ProdIds)}

JSONObject(has, val) == [wellFormed |-> TRUE, has |-> has, val |-> val]

NotJSON(val) == [wellFormed |-> FALSE, has |-> {}, val |-> val]

CategoryBodies ==
    { JSONObject({"id", "name", "description"}, Category(7, "Drinks", "Cold")),
      JSONObject({}, Category(0, "", "")),
      NotJSON(Category(0, "", "")) }

SnapshotInBody == Category(9, "Ghost", "Sent by the client")

ProductBodies ==
    { JSONObject({"name", "price", "stock", "category_id"}, Product(0, "Noodles", 3500, 100, 1, Nil)),
      JSONObject({"id", "name", "price", "stock", "category_id", "category"}, Product(2, "Tea", 500, 20, 2, SnapshotInBody)),
      NotJSON(Product(0, "", 0, 0, 0, Nil)) }

\* what is remembered of the request that took the latest step: the handler,
\* the identifier of its path (0 on a collection path or when it is no integer),
\* what the business layer returned to it, and the status it answered
\* (0 while a product POST/PUT is between its two statements)
Outcome(op, id, err, resp) == [op |-> op, id |-> id, err |-> err, status |-> resp.status]

\* the business layer was not called (the handler returned before it)
NotCalled == "not called"

(***************************************************************************)
(* Request layer: CategoryHandler.  Each operator is the handler from the  *)
(* request to the response, with the table it leaves behind.               *)
(***************************************************************************)
CategoryHandler_GetAll(cats, up, order) ==
    LET r == CategoryService_GetAll(cats, up, order)
    IN  [err |-> r.err, calls |-> <<"categoryRepository.GetAll">>,
         resp |-> IF r.err # NoErr
                  THEN WriteError(StatusInternalServerError, "Failed to fetch categories")
                  ELSE WriteJSON(StatusOK, r.list)]

CategoryHandler_Create(cats, seq, up, body) ==
    LET d == DecodeCategory(body)
        r == CategoryService_Create(cats, seq, up, d.category)
    IN  IF d.err # NoErr
        THEN [err |-> NotCalled, calls |-> <<>>, cats |-> cats, seq |-> seq,
              resp |-> WriteError(StatusBadRequest, "Invalid request body")]
        ELSE [err |-> r.err, calls |-> <<"categoryRepository.Create">>, cats |-> r.cats, seq |-> r.seq,
              resp |-> IF r.err # NoErr
                       THEN WriteError(StatusInternalServerError, "Failed to create category")
                       ELSE WriteJSON(StatusCreated, r.category)]

CategoryHandler_GetByID(cats, up, path) ==
    LET p == parseIDFromPath(path, CategoryPrefix)
        r == CategoryService_GetByID(cats, up, p.n)
    IN  IF p.err # NoErr
        THEN [id |-> 0, err |-> NotCalled, calls |-> <<>>,
              resp |-> WriteError(StatusBadRequest, "Invalid category ID")]
        ELSE [id |-> p.n, err |-> r.err, calls |-> <<"categoryRepository.GetByID">>,
              resp |-> IF r.err # NoErr
                       THEN IF ErrorsIs(r.err, ErrNotFound)
                            THEN WriteError(StatusNotFound, "Category not found")
                            ELSE WriteError(StatusInternalServerError, "Failed to fetch category")
                       ELSE WriteJSON(StatusOK, r.category)]

CategoryHandler_Update(cats, up, path, body) ==
    LET p == parseIDFromPath(path, CategoryPrefix)
        d == DecodeCategory(body)
        category == [d.category EXCEPT !.id = p.n]
        r == CategoryService_Update(cats, up, category)
    IN  IF p.err # NoErr
        THEN [id |-> 0, err |-> NotCalled, calls |-> <<>>, cats |-> cats,
              resp |-> WriteError(StatusBadRequest, "Invalid category ID")]
        ELSE IF d.err # NoErr
        THEN [id |-> p.n, err |-> NotCalled, calls |-> <<>>, cats |-> cats,
              resp |-> WriteError(StatusBadRequest, "Invalid request body")]
        ELSE [id |-> p.n, err |-> r.err, calls |-> <<"categoryRepository.Update">>, cats |-> r.cats,
              resp |-> IF r.err # NoErr
                       THEN IF ErrorsIs(r.err, ErrNotFound)
                            THEN WriteError(StatusNotFound, "Category not found")
                            ELSE WriteError(StatusInternalServerError, "Failed to update category")
                       ELSE WriteJSON(StatusOK, category)]

\* Delete putting the text of the error into the response
CategoryHandler_Delete_ErrorText(cats, prods, up, path) ==
    LET p == parseIDFromPath(path, CategoryPrefix)
        r == CategoryService_Delete(cats, prods, up, p.n)
    IN  IF p.err # NoErr
        THEN [id |-> 0, err |-> NotCalled, calls |-> <<>>, cats |-> cats,
              resp |-> WriteError(StatusBadRequest, "Invalid category ID")]
        ELSE [id |-> p.n, err |-> r.err, calls |-> <<"categoryRepository.Delete">>, cats |-> r.cats,
              resp |-> IF r.err # NoErr
                       THEN IF ErrorsIs(r.err, ErrNotFound)
                            THEN WriteError(StatusNotFound, "Category not found")
                            ELSE WriteError(StatusInternalServerError, r.err)
                       ELSE WriteJSON(StatusOK, [message |-> "Category deleted successfully"])]

CategoryHandler_Delete(cats, prods, up, path) ==
    LET p == parseIDFromPath(path, CategoryPrefix)
        r == CategoryService_Delete(cats, prods, up, p.n)
    IN  IF p.err # NoErr
        THEN [id |-> 0, err |-> NotCalled, calls |-> <<>>, cats |-> cats,
              resp |-> WriteError(StatusBadRequest, "Invalid category ID")]
        ELSE [id |-> p.n, err |-> r.err, calls |-> <<"categoryRepository.Delete">>, cats |-> r.cats,
              resp |-> IF r.err # NoErr
                       THEN IF ErrorsIs(r.err, ErrNotFound)
                            THEN WriteError(StatusNotFound, "Category not found")
                            ELSE WriteError(StatusInternalServerError, "Failed to delete category")
                       ELSE WriteJSON(StatusOK, [message |-> "Category deleted successfully"])]

(***************************************************************************)
(* Request layer: ProductHandler.  GetAll, GetByID and Delete issue one    *)
(* statement.  Create and Update are cut where ProductService is between   *)
(* its lookup and its write: _Begin runs the handler up to and including   *)
(* the lookup, _End runs the write and writes the response.                *)
(***************************************************************************)
ProductHandler_GetAll(cats, prods, up, order) ==
    LET r == ProductService_GetAll(cats, prods, up, order)
    IN  [err |-> r.err, calls |-> <<"productRepository.GetAll">>,
         resp |-> IF r.err # NoErr
                  THEN WriteError(StatusInternalServerError, "Failed to fetch products")
                  ELSE WriteJSON(StatusOK, r.list)]

\* Create answering a missing category like a missing resource
ProductHandler_Create_Reply_CategoryAs404(err, product) ==
    IF err # NoErr
    THEN IF ErrorsIs(err, ErrCategoryNotFound)
         THEN WriteError(StatusNotFound, "Category not found")
         ELSE WriteError(StatusBadRequest, "Failed to create product")
    ELSE WriteJSON(StatusCreated, product)

\* the response Create writes for what ProductService.Create returned
ProductHandler_Create_Reply(err, product) ==
    IF err # NoErr
    THEN IF ErrorsIs(err, ErrCategoryNotFound)
         THEN WriteError(StatusBadRequest, "Category not found")
         ELSE WriteError(StatusBadRequest, "Failed to create product")
    ELSE WriteJSON(StatusCreated, product)

ProductHandler_Create_Begin(cats, up, body) ==
    LET d == DecodeProduct(body)
        e == ProductService_Create_Lookup(cats, up, d.product)
    IN  IF d.err # NoErr
        THEN [done |-> TRUE, product |-> d.product, err |-> NotCalled, calls |-> <<>>,
              resp |-> WriteError(StatusBadRequest, "Invalid request body")]
        ELSE IF e # NoErr
        THEN [done |-> TRUE, product |-> d.product, err |-> e, calls |-> <<"categoryRepository.GetByID">>,
              resp |-> ProductHandler_Create_Reply(e, d.product)]
        ELSE [done |-> FALSE, product |-> d.product, err |-> NoErr, calls |-> <<"categoryRepository.GetByID">>,
              resp |-> NoResponse]

ProductHandler_Create_End(cats, prods, seq, up, product) ==
    LET r == ProductService_Create_Write(cats, prods, seq, up, product)
    IN  [err |-> r.err, calls |-> <<"categoryRepository.GetByID", "productRepository.Create">>,
         prods |-> r.prods, seq |-> r.seq,
         resp |-> ProductHandler_Create_Reply(r.err, r.product)]

ProductHandler_GetByID(cats, prods, up, path) ==
    LET p == parseIDFromPath(path, ProductPrefix)
        r == ProductService_GetByID(cats, prods, up, p.n)
    IN  IF p.err # NoErr
        THEN [id |-> 0, err |-> NotCalled, calls |-> <<>>,
              resp |-> WriteError(StatusBadRequest, "Invalid product ID")]
        ELSE [id |-> p.n, err |-> r.err, calls |-> <<"productRepository.GetByID">>,
              resp |-> IF r.err # NoErr
                       THEN IF ErrorsIs(r.err, ErrNotFound)
                            THEN WriteError(StatusNotFound, "Product not found")
                            ELSE WriteError(StatusInternalServerError, "Failed to fetch product")
                       ELSE WriteJSON(StatusOK, r.product)]

\* Update answering every error alike, without the NotFound case
ProductHandler_Update_Reply_NoNotFoundCase(err, product) ==
    IF err # NoErr
    THEN IF ErrorsIs(err, ErrCategoryNotFound)
         THEN WriteError(StatusBadRequest, "Category not found")
         ELSE WriteError(StatusBadRequest, "Failed to update product")
    ELSE WriteJSON(StatusOK, product)

\* the response Update writes for what ProductService.Update returned
ProductHandler_Update_Reply(err, product) ==
    IF err # NoErr
    THEN IF ErrorsIs(err, ErrNotFound)
         THEN WriteError(StatusNotFound, "Product not found")
         ELSE IF ErrorsIs(err, ErrCategoryNotFound)
         THEN WriteError(StatusBadRequest, "Category not found")
         ELSE WriteError(StatusBadRequest, "Failed to update product")
    ELSE WriteJSON(StatusOK, product)

\* Update that leaves the decoded id in place instead of the one of the path
ProductHandler_Update_Begin_BodyId(cats, up, path, body) ==
    LET p == parseIDFromPath(path, ProductPrefix)
        d == DecodeProduct(body)
        product == d.product
        e == ProductService_Update_Lookup(cats, up, product)
    IN  IF p.err # NoErr
        THEN [done |-> TRUE, id |-> 0, product |-> d.product, err |-> NotCalled, calls |-> <<>>,
              resp |-> WriteError(StatusBadRequest, "Invalid product ID")]
        ELSE IF d.err # NoErr
        THEN [done |-> TRUE, id |-> p.n, product |-> d.product, err |-> NotCalled, calls |-> <<>>,
              resp |-> WriteError(StatusBadRequest, "Invalid request body")]
        ELSE IF e # NoErr
        THEN [done |-> TRUE, id |-> p.n, product |-> product, err |-> e, calls |-> <<"categoryRepository.GetByID">>,
              resp |-> ProductHandler_Update_Reply(e, product)]
        ELSE [done |-> FALSE, id |-> p.n, product |-> product, err |-> NoErr, calls |-> <<"categoryRepository.GetByID">>,
              resp |-> NoResponse]

ProductHandler_Update_Begin(cats, up, path, body) ==
    LET p == parseIDFromPath(path, ProductPrefix)
        d == DecodeProduct(body)
        product == [d.product EXCEPT !.id = p.n]
        e == ProductService_Update_Lookup(cats, up, product)
    IN  IF p.err # NoErr
        THEN [done |-> TRUE, id |-> 0, product |-> d.product, err |-> NotCalled, calls |-> <<>>,
              resp |-> WriteError(StatusBadRequest, "Invalid product ID")]
        ELSE IF d.err # NoErr
        THEN [done |-> TRUE, id |-> p.n, product |-> d.product, err |-> NotCalled, calls |-> <<>>,
              resp |-> WriteError(StatusBadRequest, "Invalid request body")]
        ELSE IF e # NoErr
        THEN [done |-> TRUE, id |-> p.n, product |-> product, err |-> e, calls |-> <<"categoryRepository.GetByID">>,
              resp |-> ProductHandler_Update_Reply(e, product)]
        ELSE [done |-> FALSE, id |-> p.n, product |-> product, err |-> NoErr, calls |-> <<"categoryRepository.GetByID">>,
              resp |-> NoResponse]

ProductHandler_Update_End(cats, prods, up, product) ==
    LET r == ProductService_Update_Write(cats, prods, up, product)
    IN  [err |-> r.err, calls |-> <<"categoryRepository.GetByID", "productRepository.Update">>,
         prods |-> r.prods,
         resp |-> ProductHandler_Update_Reply(r.err, product)]

ProductHandler_Delete(prods, up, path) ==
    LET p == parseIDFromPath(path, ProductPrefix)
        r == ProductService_Delete(prods, up, p.n)
    IN  IF p.err # NoErr
        THEN [id |-> 0, err |-> NotCalled, calls |-> <<>>, prods |-> prods,
              resp |-> WriteError(StatusBadRequest, "Invalid product ID")]
        ELSE [id |-> p.n, err |-> r.err, calls |-> <<"productRepository.Delete">>, prods |-> r.prods,
              resp |-> IF r.err # NoErr
                       THEN IF ErrorsIs(r.err, ErrNotFound)
                            THEN WriteError(StatusNotFound, "Product not found")
                            ELSE WriteError(StatusBadRequest, "Failed to delete product")
                       ELSE WriteJSON(StatusOK, [message |-> "Product deleted successfully"])]

(***************************************************************************)
(* Request layer: the method switch of each route, and the health check.   *)
(***************************************************************************)
\* r.Method: the methods the model sends
Methods == {"GET", "POST", "PUT", "DELETE", "PATCH"}

\* the switch calls a handler
Routed(handler) == [handler |-> handler, err |-> NotCalled, calls |-> <<>>, resp |-> NoResponse]

\* the default case of the switch
MethodNotAllowedReply == [handler |-> "", err |-> NotCalled, calls |-> <<>>, resp |-> WriteError(StatusMethodNotAllowed, "Method not allowed")]

CategoryHandler_HandleCategories(method) ==
    CASE method = "GET" -> Routed("CategoryHandler.GetAll")
      [] method = "POST" -> Routed("CategoryHandler.Create")
      [] OTHER -> MethodNotAllowedReply

CategoryHandler_HandleCategoryByID(method) ==
    CASE method = "GET" -> Routed("CategoryHandler.GetByID")
      [] method = "PUT" -> Routed("CategoryHandler.Update")
      [] method = "DELETE" -> Routed("CategoryHandler.Delete")
      [] OTHER -> MethodNotAllowedReply

ProductHandler_HandleProducts(method) ==
    CASE method = "GET" -> Routed("ProductHandler.GetAll")
      [] method = "POST" -> Routed("ProductHandler.Create")
      [] OTHER -> MethodNotAllowedReply

\* the switch without its default case: nothing is written, net/http answers 200
ProductHandler_HandleProductByID_NoDefault(method) ==
    CASE method = "GET" -> Routed("ProductHandler.GetByID")
      [] method = "PUT" -> Routed("ProductHandler.Update")
      [] method = "DELETE" -> Routed("ProductHandler.Delete")
      [] OTHER -> [handler |-> "", err |-> NotCalled, calls |-> <<>>, resp |-> WriteJSON(StatusOK, Nil)]

ProductHandler_HandleProductByID(method) ==
    CASE method = "GET" -> Routed("ProductHandler.GetByID")
      [] method = "PUT" -> Routed("ProductHandler.Update")
      [] method = "DELETE" -> Routed("ProductHandler.Delete")
      [] OTHER -> MethodNotAllowedReply

\* the routes of the mux with a method switch
Routes == {"CategoryHandler.HandleCategories", "CategoryHandler.HandleCategoryByID", "ProductHandler.HandleProducts", "ProductHandler.HandleProductByID"}

Dispatch(route, method) ==
    CASE route = "CategoryHandler.HandleCategories" -> CategoryHandler_HandleCategories(method)
      [] route = "CategoryHandler.HandleCategoryByID" -> CategoryHandler_HandleCategoryByID(method)
      [] route = "ProductHandler.HandleProducts" -> ProductHandler_HandleProducts(method)
      [] route = "ProductHandler.HandleProductByID" -> ProductHandler_HandleProductByID(method)

\* some method sent to the route reaches the handler
Reaches(route, handler) == \E method \in Methods : Dispatch(route, method).handler = handler

\* the health check reporting a failed ping as a payload instead of an error
HealthHandler_Health_StatusPayload(up, method) ==
    IF method # "GET"
    THEN [err |-> NotCalled, calls |-> <<>>, resp |-> WriteError(StatusMethodNotAllowed, "Method not allowed")]
    ELSE IF ~up
    THEN [err |-> ErrBadConn, calls |-> <<"db.Ping">>, resp |-> WriteJSON(StatusServiceUnavailable, [status |-> "unhealthy", database |-> "disconnected"])]
    ELSE [err |-> NoErr, calls |-> <<"db.Ping">>, resp |-> WriteJSON(StatusOK, [status |-> "healthy", database |-> "connected"])]

\* the health check pinging the store before it looks at the method
HealthHandler_Health_PingFirst(up, method) ==
    IF ~up
    THEN [err |-> ErrBadConn, calls |-> <<"db.Ping">>, resp |-> WriteError(StatusServiceUnavailable, "Database connection failed")]
    ELSE IF method # "GET"
    THEN [err |-> NotCalled, calls |-> <<"db.Ping">>, resp |-> WriteError(StatusMethodNotAllowed, "Method not allowed")]
    ELSE [err |-> NoErr, calls |-> <<"db.Ping">>, resp |-> WriteJSON(StatusOK, [status |-> "healthy", database |-> "connected"])]

\* GET /health: `up` is whether db.Ping reaches the store
HealthHandler_Health(up, method) ==
    IF method # "GET"
    THEN [err |-> NotCalled, calls |-> <<>>, resp |-> WriteError(StatusMethodNotAllowed, "Method not allowed")]
    ELSE IF ~up
    THEN [err |-> ErrBadConn, calls |-> <<"db.Ping">>, resp |-> WriteError(StatusServiceUnavailable, "Database connection failed")]
    ELSE [err |-> NoErr, calls |-> <<"db.Ping">>, resp |-> WriteJSON(StatusOK, [status |-> "healthy", database |-> "connected"])]

(***************************************************************************)
(* The state machine.  Init is the store after the schema was created:     *)
(* both tables empty, both sequences at 1, no request in flight.           *)
(***************************************************************************)
EmptyTable == [i \in {} |-> Nil]

Init ==
    /\ categories = EmptyTable
    /\ products = EmptyTable
    /\ catSeq = 1
    /\ prodSeq = 1
    /\ pending = EmptyBag
    /\ deletedCats = {}
    /\ deletedProds = {}
    /\ last = Outcome("init", 0, NotCalled, NoResponse)

\* GET /api/categories
CategoryGetAll(ups) ==
    /\ Reaches("CategoryHandler.HandleCategories", "CategoryHandler.GetAll")
    /\ \E up \in ups, order \in RowOrders(DOMAIN categories) :
         LET h == CategoryHandler_GetAll(categories, up, order)
         IN  last' = Outcome("CategoryHandler.GetAll", 0, h.err, h.resp)
    /\ UNCHANGED <<categories, products, catSeq, prodSeq, pending, deletedCats, deletedProds>>

\* POST /api/categories
CategoryCreate(ups) ==
    /\ Reaches("CategoryHandler.HandleCategories", "CategoryHandler.Create")
    /\ \E up \in ups, body \in CategoryBodies :
         LET h == CategoryHandler_Create(categories, catSeq, up, body)
         IN  /\ h.seq <= MaxCatId + 1
             /\ categories' = h.cats
             /\ catSeq' = h.seq
             /\ last' = Outcome("CategoryHandler.Create", 0, h.err, h.resp)
    /\ UNCHANGED <<products, prodSeq, pending, deletedCats, deletedProds>>

\* GET /api/categories/{id}
CategoryGetByID(ups) ==
    /\ Reaches("CategoryHandler.HandleCategoryByID", "CategoryHandler.GetByID")
    /\ \E up \in ups, path \in CategoryPaths :
         LET h == CategoryHandler_GetByID(categories, up, path)
         IN  last' = Outcome("CategoryHandler.GetByID", h.id, h.err, h.resp)
    /\ UNCHANGED <<categories, products, catSeq, prodSeq, pending, deletedCats, deletedProds>>

\* PUT /api/categories/{id}
CategoryUpdate(ups) ==
    /\ Reaches("CategoryHandler.HandleCategoryByID", "CategoryHandler.Update")
    /\ \E up \in ups, path \in CategoryPaths, body \in CategoryBodies :
         LET h == CategoryHandler_Update(categories, up, path, body)
         IN  /\ categories' = h.cats
             /\ last' = Outcome("CategoryHandler.Update", h.id, h.err, h.resp)
    /\ UNCHANGED <<products, catSeq, prodSeq, pending, deletedCats, deletedProds>>

\* DELETE /api/categories/{id}
CategoryDelete(ups) ==
    /\ Reaches("CategoryHandler.HandleCategoryByID", "CategoryHandler.Delete")
    /\ \E up \in ups, path \in CategoryPaths :
         LET h == CategoryHandler_Delete(categories, products, up, path)
         IN  /\ categories' = h.cats
             /\ deletedCats' = IF h.err = NoErr THEN deletedCats \cup {h.id} ELSE deletedCats
             /\ last' = Outcome("CategoryHandler.Delete", h.id, h.err, h.resp)
    /\ UNCHANGED <<products, catSeq, prodSeq, pending, deletedProds>>

\* GET /api/products
ProductGetAll(ups) ==
    /\ Reaches("ProductHandler.HandleProducts", "ProductHandler.GetAll")
    /\ \E up \in ups, order \in RowOrders(JoinedIds(categories, products)) :
         LET h == ProductHandler_GetAll(categories, products, up, order)
         IN  last' = Outcome("ProductHandler.GetAll", 0, h.err, h.resp)
    /\ UNCHANGED <<categories, products, catSeq, prodSeq, pending, deletedCats, deletedProds>>

\* GET /api/products/{id}
ProductGetByID(ups) ==
    /\ Reaches("ProductHandler.HandleProductByID", "ProductHandler.GetByID")
    /\ \E up \in ups, path \in ProductPaths :
         LET h == ProductHandler_GetByID(categories, products, up, path)
         IN  last' = Outcome("ProductHandler.GetByID", h.id, h.err, h.resp)
    /\ UNCHANGED <<categories, products, catSeq, prodSeq, pending, deletedCats, deletedProds>>

\* DELETE /api/products/{id}
ProductDelete(ups) ==
    /\ Reaches("ProductHandler.HandleProductByID", "ProductHandler.Delete")
    /\ \E up \in ups, path \in ProductPaths :
         LET h == ProductHandler_Delete(products, up, path)
         IN  /\ products' = h.prods
             /\ deletedProds' = IF h.err = NoErr THEN deletedProds \cup {h.id} ELSE deletedProds
             /\ last' = Outcome("ProductHandler.Delete", h.id, h.err, h.resp)
    /\ UNCHANGED <<categories, catSeq, prodSeq, pending, deletedCats>>

\* a request goroutine is free to start a product POST/PUT: MaxThreads bounds
\* how many of them are between their two statements at once
FreeThread == BagCardinality(pending) < MaxThreads

InFlight(op, id, product) == [op |-> op, id |-> id, product |-> product]

\* POST /api/products, up to and including the category lookup
ProductCreateBegin(ups) ==
    /\ Reaches("ProductHandler.HandleProducts", "ProductHandler.Create")
    /\ FreeThread
    /\ \E up \in ups, body \in ProductBodies :
         LET h == ProductHandler_Create_Begin(categories, up, body)
         IN  /\ pending' = IF h.done THEN pending
                           ELSE pending (+) SetToBag({InFlight("ProductHandler.Create", 0, h.product)})
             /\ last' = Outcome("ProductHandler.Create", 0, h.err, h.resp)
    /\ UNCHANGED <<categories, products, catSeq, prodSeq, deletedCats, deletedProds>>

\* POST /api/products, the INSERT and the response
ProductCreateEnd(ups) ==
    /\ \E up \in ups, q \in BagToSet(pending) :
         LET h == ProductHandler_Create_End(categories, products, prodSeq, up, q.product)
         IN  /\ q.op = "ProductHandler.Create"
             /\ h.seq <= MaxProdId + 1
             /\ products' = h.prods
             /\ prodSeq' = h.seq
             /\ pending' = pending (-) SetToBag({q})
             /\ last' = Outcome(q.op, q.id, h.err, h.resp)
    /\ UNCHANGED <<categories, catSeq, deletedCats, deletedProds>>

\* PUT /api/products/{id}, up to and including the category lookup
ProductUpdateBegin(ups) ==
    /\ Reaches("ProductHandler.HandleProductByID", "ProductHandler.Update")
    /\ FreeThread
    /\ \E up \in ups, path \in ProductPaths, body \in ProductBodies :
         LET h == ProductHandler_Update_Begin(categories, up, path, body)
         IN  /\ pending' = IF h.done THEN pending
                           ELSE pending (+) SetToBag({InFlight("ProductHandler.Update", h.id, h.product)})
             /\ last' = Outcome("ProductHandler.Update", h.id, h.err, h.resp)
    /\ UNCHANGED <<categories, products, catSeq, prodSeq, deletedCats, deletedProds>>

\* PUT /api/products/{id}, the UPDATE and the response
ProductUpdateEnd(ups) ==
    /\ \E up \in ups, q \in BagToSet(pending) :
         LET h == ProductHandler_Update_End(categories, products, up, q.product)
         IN  /\ q.op = "ProductHandler.Update"
             /\ products' = h.prods
             /\ pending' = pending (-) SetToBag({q})
             /\ last' = Outcome(q.op, q.id, h.err, h.resp)
    /\ UNCHANGED <<categories, catSeq, prodSeq, deletedCats, deletedProds>>

\* a method the route's switch has no case for
MethodNotAllowed ==
    /\ \E route \in Routes, method \in Methods :
         LET h == Dispatch(route, method)
         IN  /\ h.handler = ""
             /\ last' = Outcome(route, 0, h.err, h.resp)
    /\ UNCHANGED <<categories, products, catSeq, prodSeq, pending, deletedCats, deletedProds>>

\* any method on /health
Health(ups) ==
    /\ \E up \in ups, method \in Methods :
         LET h == HealthHandler_Health(up, method)
         IN  last' = Outcome("HealthHandler.Health", 0, h.err, h.resp)
    /\ UNCHANGED <<categories, products, catSeq, prodSeq, pending, deletedCats, deletedProds>>

Requests(ups) ==
    \/ CategoryGetAll(ups)
    \/ CategoryCreate(ups)
    \/ CategoryGetByID(ups)
    \/ CategoryUpdate(ups)
    \/ CategoryDelete(ups)
    \/ ProductGetAll(ups)
    \/ ProductGetByID(ups)
    \/ ProductDelete(ups)
    \/ ProductCreateBegin(ups)
    \/ ProductCreateEnd(ups)
    \/ ProductUpdateBegin(ups)
    \/ ProductUpdateEnd(ups)
    \/ MethodNotAllowed
    \/ Health(ups)

\* every statement reaches the store
Next == Requests({TRUE})

Spec == Init /\ [][Next]_vars

\* a statement may fail to reach the store
FaultNext == Requests(BOOLEAN)

FaultSpec == Init /\ [][FaultNext]_vars

(***************************************************************************)
(* Properties.  The arguments the request layer hands to the business      *)
(* layer, used to apply an operation in every reachable state.             *)
(***************************************************************************)
Range(f) == {f[i] : i \in DOMAIN f}

WellFormed(bodies) == {b \in bodies : b.wellFormed}

\* the bodies the requests of the model send, and bodies that leave members out
ProbeCategoryBodies ==
    CategoryBodies \cup {JSONObject({"name"}, Category(0, "Snacks", "")),
                         JSONObject({"description"}, Category(0, "", "No name"))}

ProbeProductBodies ==
    ProductBodies \cup {JSONObject({"price", "stock", "category_id"}, Product(0, "", 0 - 1, 0 - 1, 1, Nil)),
                        JSONObject({"name"}, Product(0, "Rice", 0, 0, 0, Nil))}

\* identifiers around the stored ones: negative, zero, stored, never assigned
ProbeCatIds == (0 - 1)..(MaxCatId + 1)
ProbeProdIds == (0 - 1)..(MaxProdId + 1)

\* what ProductHandler.Create passes to ProductService.Create
ProductCreateArgs == {DecodeProduct(b).product : b \in WellFormed(ProbeProductBodies)}

\* what ProductHandler.Update passes to ProductService.Update
ProductUpdateArgs == {[DecodeProduct(b).product EXCEPT !.id = i] : b \in WellFormed(ProbeProductBodies), i \in ProbeProdIds}

\* what CategoryHandler.Update passes to CategoryService.Update
CategoryUpdateArgs == {[DecodeCategory(b).category EXCEPT !.id = i] : b \in WellFormed(ProbeCategoryBodies), i \in ProbeCatIds}

\* whether the two statements of a product write reach the store
Reach == [lookup : BOOLEAN, write : BOOLEAN]

Healthy == [lookup |-> TRUE, write |-> TRUE]

ProductWrites == {"ProductHandler.Create", "ProductHandler.Update"}

(***************************************************************************)
(* C1: ProductService.Create and ProductService.Update, called with a      *)
(* category_id that matches no stored category, return CategoryNotFound,   *)
(* do not call the product persistence operation, and leave both tables as *)
(* they were.                                                              *)
(***************************************************************************)
C1_Rejected ==
    /\ \A product \in ProductCreateArgs, w \in BOOLEAN :
           product.category_id \notin DOMAIN categories =>
               LET r == ProductService_Create(categories, products, prodSeq, [lookup |-> TRUE, write |-> w], product)
               IN  /\ r.err = ErrCategoryNotFound
                   /\ "productRepository.Create" \notin Range(r.calls)
                   /\ r.prods = products
                   /\ r.seq = prodSeq
    /\ \A product \in ProductUpdateArgs, w \in BOOLEAN :
           product.category_id \notin DOMAIN categories =>
               LET r == ProductService_Update(categories, products, [lookup |-> TRUE, write |-> w], product)
               IN  /\ r.err = ErrCategoryNotFound
                   /\ "productRepository.Update" \notin Range(r.calls)
                   /\ r.prods = products

\* the step of a request that was answered CategoryNotFound changes no table
C1_Frame ==
    (last'.op \in ProductWrites /\ last'.err = ErrCategoryNotFound)
        => UNCHANGED <<categories, products, catSeq, prodSeq>>

C1_CategoryNotFoundWritesNothing == [](C1_Rejected) /\ [][C1_Frame]_vars

\* a product write was rejected for its category while both tables hold rows
C1_Witness ==
    /\ last.op \in ProductWrites
    /\ last.err = ErrCategoryNotFound
    /\ DOMAIN categories # {}
    /\ DOMAIN products # {}

(***************************************************************************)
(* C2: in every reachable state, under every interleaving of product       *)
(* creates and updates with category deletes, the category_id of each      *)
(* stored product is the id of a stored category.                          *)
(***************************************************************************)
C2_ProductsReferenceStoredCategories ==
    \A p \in DOMAIN products : products[p].category_id \in DOMAIN categories

\* the interleaving happened: a product write passed its lookup, the category
\* was deleted before the write, and the store refused the write
C2_Witness ==
    /\ last.op \in ProductWrites
    /\ last.err = ErrForeignKey
    /\ deletedCats # {}

(***************************************************************************)
(* C3 as stated: for either entity, Update of an id that matches no stored *)
(* row fails with NotFound and leaves the store unchanged; for Product     *)
(* this is the result of ProductService.Update for every payload, whatever *)
(* category_id it carries.                                                 *)
(***************************************************************************)
C3_CategoryUpdateOfMissingId ==
    \A category \in CategoryUpdateArgs :
        category.id \notin DOMAIN categories =>
            LET r == CategoryService_Update(categories, TRUE, category)
            IN  r.err = ErrNotFound /\ r.cats = categories

C3_AsStated ==
    /\ C3_CategoryUpdateOfMissingId
    /\ \A product \in ProductUpdateArgs :
           product.id \notin DOMAIN products =>
               LET r == ProductService_Update(categories, products, Healthy, product)
               IN  r.err = ErrNotFound /\ r.prods = products

(***************************************************************************)
(* C3 amended: for either entity, Update of an id that matches no stored   *)
(* row leaves the store unchanged.  CategoryService.Update fails with      *)
(* NotFound.  ProductService.Update fails with NotFound when the payload's *)
(* category_id is the id of a stored category, and with CategoryNotFound   *)
(* when it is not; productRepository.Update itself fails with NotFound for *)
(* every payload.                                                          *)
(***************************************************************************)
C3_UpdateOfMissingId ==
    /\ C3_CategoryUpdateOfMissingId
    /\ \A product \in ProductUpdateArgs :
           product.id \notin DOMAIN products =>
               LET r == ProductService_Update(categories, products, Healthy, product)
                   w == productRepository_Update(categories, products, TRUE, product)
               IN  /\ r.err = IF product.category_id \in DOMAIN categories THEN ErrNotFound ELSE ErrCategoryNotFound
                   /\ r.prods = products
                   /\ w.err = ErrNotFound
                   /\ w.prods = products

\* a product update of an id that is not stored was answered NotFound while
\* other rows are stored
C3_Witness ==
    /\ last.op = "ProductHandler.Update"
    /\ last.id \notin DOMAIN products
    /\ last.err = ErrNotFound
    /\ DOMAIN products # {}

(***************************************************************************)
(* C4: for either entity, Delete of an id that matches no stored row fails *)
(* with NotFound and removes nothing; in particular a second Delete of an  *)
(* id after its successful Delete fails with NotFound.                     *)
(***************************************************************************)
C4_DeleteOfMissingId ==
    /\ \A id \in ProbeCatIds \cup deletedCats :
           id \notin DOMAIN categories =>
               LET r == CategoryService_Delete(categories, products, TRUE, id)
               IN  r.err = ErrNotFound /\ r.cats = categories
    /\ \A id \in ProbeProdIds \cup deletedProds :
           id \notin DOMAIN products =>
               LET r == ProductService_Delete(products, TRUE, id)
               IN  r.err = ErrNotFound /\ r.prods = products
    /\ deletedCats \cap DOMAIN categories = {}
    /\ deletedProds \cap DOMAIN products = {}

\* the second Delete of a deleted id was answered NotFound while rows are stored
C4_Witness ==
    /\ last.op = "ProductHandler.Delete"
    /\ last.id \in deletedProds
    /\ last.err = ErrNotFound
    /\ DOMAIN products # {}

(***************************************************************************)
(* C5: after DELETE /api/categories/{id} succeeded, every later GET of the *)
(* same id that reaches the store answers 404, whatever categories were    *)
(* created in between: a deleted id is not handed out again.               *)
(***************************************************************************)
C5_DeletedCategoryStaysGone ==
    \A id \in deletedCats :
        /\ CategoryHandler_GetByID(categories, TRUE, <<CategoryPrefix>> \o Itoa(id)).resp = WriteError(StatusNotFound, "Category not found")
        /\ id < catSeq

\* a GET of a deleted id was answered 404 after a later category was created
C5_Witness ==
    /\ last.op = "CategoryHandler.GetByID"
    /\ last.id \in deletedCats
    /\ last.status = StatusNotFound
    /\ \E c \in DOMAIN categories : c > last.id

(***************************************************************************)
(* C6: for every CategoryInput, Create followed by GetByID of the assigned *)
(* id returns the name and the description of the input, and the assigned  *)
(* id is positive and differs from the id of every category stored before. *)
(***************************************************************************)
C6_CreateThenGet ==
    \A b \in WellFormed(ProbeCategoryBodies) :
        LET input == DecodeCategory(b).category
            c == CategoryService_Create(categories, catSeq, TRUE, input)
            g == CategoryService_GetByID(c.cats, TRUE, c.category.id)
        IN  /\ c.err = NoErr
            /\ g.err = NoErr
            /\ g.category.id = c.category.id
            /\ g.category.name = input.name
            /\ g.category.description = input.description
            /\ c.category.id > 0
            /\ c.category.id \notin DOMAIN categories

\* a category was created while another one was stored
C6_Witness ==
    /\ last.op = "CategoryHandler.Create"
    /\ last.status = StatusCreated
    /\ Cardinality(DOMAIN categories) >= 2

(***************************************************************************)
(* C7: after Create(Product), GetByID of the product returns it with the   *)
(* embedded category equal to the referenced Category as stored at the     *)
(* time of the read, also when that Category was updated after the product *)
(* was created.                                                            *)
(***************************************************************************)
C7_EmbeddedCategoryIsCurrent ==
    /\ \A id \in DOMAIN products :
           LET g == ProductService_GetByID(categories, products, TRUE, id)
               c == CategoryService_GetByID(categories, TRUE, products[id].category_id)
           IN  /\ g.err = NoErr
               /\ c.err = NoErr
               /\ g.product.id = id
               /\ ProductRow(g.product) = products[id]
               /\ g.product.category = c.category
    /\ \A product \in ProductCreateArgs :
           product.category_id \in DOMAIN categories =>
               LET w == ProductService_Create(categories, products, prodSeq, Healthy, product)
                   g == ProductService_GetByID(categories, w.prods, TRUE, w.product.id)
                   c == CategoryService_GetByID(categories, TRUE, product.category_id)
               IN  /\ w.err = NoErr
                   /\ g.err = NoErr
                   /\ ProductRow(g.product) = ProductRow(product)
                   /\ g.product.category = c.category

\* a category was updated while a stored product references it
C7_Witness ==
    /\ last.op = "CategoryHandler.Update"
    /\ last.status = StatusOK
    /\ \E p \in DOMAIN products : products[p].category_id = last.id

(***************************************************************************)
(* C8: for either entity, GetAll on a table that holds no row (never       *)
(* filled, or emptied by deleting every row) returns a list that is not    *)
(* null and has length 0, and no error.                                    *)
(***************************************************************************)
C8_EmptyTableListsEmpty ==
    /\ DOMAIN categories = {} =>
           \A order \in RowOrders(DOMAIN categories) :
               LET r == CategoryService_GetAll(categories, TRUE, order)
               IN  r.err = NoErr /\ ~r.list.nil /\ Len(r.list.items) = 0
    /\ DOMAIN products = {} =>
           \A order \in RowOrders(JoinedIds(categories, products)) :
               LET r == ProductService_GetAll(categories, products, TRUE, order)
               IN  r.err = NoErr /\ ~r.list.nil /\ Len(r.list.items) = 0

\* GET /api/categories was answered on a table emptied by deletes
C8_Witness ==
    /\ last.op = "CategoryHandler.GetAll"
    /\ last.status = StatusOK
    /\ DOMAIN categories = {}
    /\ deletedCats # {}

(***************************************************************************)
(* C9: for both entities and each of GET, PUT and DELETE on an item path,  *)
(* the response status is 404 when the business layer returned NotFound    *)
(* (for products with the message "Product not found"), and only then.     *)
(***************************************************************************)
ProbeTails(ids) == PathTails(ids) \cup {Itoa(0), <<"-", "1">>}

CategoryProbePaths == {<<CategoryPrefix>> \o t : t \in ProbeTails(1..(MaxCatId + 1))}

ProductProbePaths == {<<ProductPrefix>> \o t : t \in ProbeTails(1..(MaxProdId + 1))}

NotFoundIs404(h) == ErrorsIs(h.err, ErrNotFound) <=> h.resp.status = StatusNotFound

ProductNotFoundIs404(h) ==
    /\ NotFoundIs404(h)
    /\ ErrorsIs(h.err, ErrNotFound) => h.resp = WriteError(StatusNotFound, "Product not found")

C9_NotFoundIffStatus404 ==
    /\ \A up \in BOOLEAN, path \in CategoryProbePaths :
           /\ NotFoundIs404(CategoryHandler_GetByID(categories, up, path))
           /\ NotFoundIs404(CategoryHandler_Delete(categories, products, up, path))
           /\ \A b \in ProbeCategoryBodies : NotFoundIs404(CategoryHandler_Update(categories, up, path, b))
    /\ \A up \in BOOLEAN, path \in ProductProbePaths :
           /\ ProductNotFoundIs404(ProductHandler_GetByID(categories, products, up, path))
           /\ ProductNotFoundIs404(ProductHandler_Delete(products, up, path))
           /\ \A b \in ProbeProductBodies :
                  LET h == ProductHandler_Update_Begin(categories, up, path, b)
                  IN  h.done => ProductNotFoundIs404(h)
    /\ \A up \in BOOLEAN, product \in ProductUpdateArgs :
           ProductNotFoundIs404(ProductHandler_Update_End(categories, products, up, product))
    /\ last.op \notin {"init", "CategoryHandler.GetAll", "CategoryHandler.Create", "ProductHandler.GetAll", "ProductHandler.Create"}
           => (ErrorsIs(last.err, ErrNotFound) <=> last.status = StatusNotFound)

\* PUT /api/products/{id} reached the UPDATE, which matched no row: 404
C9_Witness ==
    /\ last.op = "ProductHandler.Update"
    /\ last.err = ErrNotFound
    /\ last.status = StatusNotFound
    /\ DOMAIN categories # {}

(***************************************************************************)
(* C10: POST /api/products and PUT /api/products/{id} with a well-formed   *)
(* body whose category_id matches no stored category answer status 400     *)
(* with the message "Category not found", and never 404 or 500.            *)
(***************************************************************************)
C10_MissingCategoryIs400 ==
    /\ \A b \in WellFormed(ProbeProductBodies) :
           DecodeProduct(b).product.category_id \notin DOMAIN categories =>
               /\ LET h == ProductHandler_Create_Begin(categories, TRUE, b)
                  IN  h.done /\ h.resp = WriteError(StatusBadRequest, "Category not found")
               /\ \A path \in ProductProbePaths :
                      parseIDFromPath(path, ProductPrefix).err = NoErr =>
                          LET h == ProductHandler_Update_Begin(categories, TRUE, path, b)
                          IN  h.done /\ h.resp = WriteError(StatusBadRequest, "Category not found")
    /\ (last.op \in ProductWrites /\ last.err = ErrCategoryNotFound) => last.status = StatusBadRequest

\* PUT of a stored product with a category that is not stored: 400
C10_Witness ==
    /\ last.op = "ProductHandler.Update"
    /\ last.id \in DOMAIN products
    /\ last.err = ErrCategoryNotFound
    /\ last.status = StatusBadRequest

(***************************************************************************)
(* Every reply the handlers can give in the current state: each handler    *)
(* applied to every probe path and body, with its statement reaching the   *)
(* store or not.  The write of a product POST/PUT is applied to every      *)
(* payload the lookup may have let through earlier.                        *)
(***************************************************************************)
Reply(op, h) == [op |-> op, err |-> h.err, calls |-> h.calls, resp |-> h.resp]

CategoryReplies ==
    UNION { {Reply("CategoryHandler.GetAll", CategoryHandler_GetAll(categories, up, order)) : order \in RowOrders(DOMAIN categories)}
            \cup {Reply("CategoryHandler.Create", CategoryHandler_Create(categories, catSeq, up, b)) : b \in ProbeCategoryBodies}
            \cup {Reply("CategoryHandler.GetByID", CategoryHandler_GetByID(categories, up, path)) : path \in CategoryProbePaths}
            \cup {Reply("CategoryHandler.Update", CategoryHandler_Update(categories, up, path, b)) : path \in CategoryProbePaths, b \in ProbeCategoryBodies}
            \cup {Reply("CategoryHandler.Delete", CategoryHandler_Delete(categories, products, up, path)) : path \in CategoryProbePaths}
          : up \in BOOLEAN }

BegunReplies(op, begun) == {Reply(op, h) : h \in {g \in begun : g.done}}

\* the product requests that issue one statement
ProductSingleReplies ==
    UNION { {Reply("ProductHandler.GetAll", ProductHandler_GetAll(categories, products, up, order)) : order \in RowOrders(JoinedIds(categories, products))}
            \cup {Reply("ProductHandler.GetByID", ProductHandler_GetByID(categories, products, up, path)) : path \in ProductProbePaths}
            \cup {Reply("ProductHandler.Delete", ProductHandler_Delete(products, up, path)) : path \in ProductProbePaths}
          : up \in BOOLEAN }

\* the product requests that issue two
ProductWriteReplies ==
    UNION { BegunReplies("ProductHandler.Create", {ProductHandler_Create_Begin(categories, up, b) : b \in ProbeProductBodies})
            \cup {Reply("ProductHandler.Create", ProductHandler_Create_End(categories, products, prodSeq, up, product)) : product \in ProductCreateArgs}
            \cup BegunReplies("ProductHandler.Update", {ProductHandler_Update_Begin(categories, up, path, b) : path \in ProductProbePaths, b \in ProbeProductBodies})
            \cup {Reply("ProductHandler.Update", ProductHandler_Update_End(categories, products, up, product)) : product \in ProductUpdateArgs}
          : up \in BOOLEAN }

ProductReplies == ProductSingleReplies \cup ProductWriteReplies

RouteReplies == {Reply(route, Dispatch(route, method)) : route \in Routes, method \in Methods}

HealthReplies == {Reply("HealthHandler.Health", HealthHandler_Health(up, method)) : up \in BOOLEAN, method \in Methods}

CreateAndUpdate == {"CategoryHandler.Create", "CategoryHandler.Update", "ProductHandler.Create", "ProductHandler.Update"}

ReadAndList == {"CategoryHandler.GetAll", "CategoryHandler.GetByID", "ProductHandler.GetAll", "ProductHandler.GetByID"}

\* an error of the business layer that is neither NotFound nor CategoryNotFound
OtherError(err) == err \notin {NoErr, NotCalled, ErrNotFound, ErrCategoryNotFound}

(***************************************************************************)
(* C11 as stated: for both entities, an error of the business layer that   *)
(* is neither NotFound nor CategoryNotFound is answered 400 by a create    *)
(* or update and 500 by a read or list.                                    *)
(***************************************************************************)
C11_AsStated ==
    \A r \in CategoryReplies \cup ProductReplies :
        OtherError(r.err) =>
            /\ r.op \in CreateAndUpdate => r.resp.status = StatusBadRequest
            /\ r.op \in ReadAndList => r.resp.status = StatusInternalServerError

(***************************************************************************)
(* C12: on a collection path every method other than GET and POST, and on  *)
(* an item path every method other than GET, PUT and DELETE, is answered   *)
(* 405 without a call to the business or persistence layer, and the store  *)
(* is unchanged.                                                           *)
(***************************************************************************)
CollectionRoutes == {"CategoryHandler.HandleCategories", "ProductHandler.HandleProducts"}

AllowedMethods(route) == IF route \in CollectionRoutes THEN {"GET", "POST"} ELSE {"GET", "PUT", "DELETE"}

C12_Refused ==
    \A route \in Routes :
        \A method \in Methods \ AllowedMethods(route) :
            LET h == Dispatch(route, method)
            IN  /\ h.handler = ""
                /\ h.calls = <<>>
                /\ h.resp = WriteError(StatusMethodNotAllowed, "Method not allowed")

\* the step of a request answered 405 changes nothing of the store
C12_Frame ==
    last'.status = StatusMethodNotAllowed
        => UNCHANGED <<categories, products, catSeq, prodSeq, pending>>

C12_OtherMethodsAre405 == [](C12_Refused) /\ [][C12_Frame]_vars

\* an item route of products answered 405 while rows are stored
C12_Witness ==
    /\ last.op = "ProductHandler.HandleProductByID"
    /\ last.status = StatusMethodNotAllowed
    /\ DOMAIN products # {}

(***************************************************************************)
(* C13: on an item path whose text after the prefix is no integer (empty,  *)
(* not numeric, or with a further '/' segment), GET, PUT and DELETE answer *)
(* 400 before the body is decoded and before any business or persistence   *)
(* call, and the store is unchanged.                                       *)
(***************************************************************************)
BadIdTails == {<<>>, <<"x">>, <<"1", "x">>, <<"1", "/", "2">>}

C13_Rejected ==
    \A up \in BOOLEAN, tail \in BadIdTails :
        LET cpath == <<CategoryPrefix>> \o tail
            ppath == <<ProductPrefix>> \o tail
            cget == CategoryHandler_GetByID(categories, up, cpath)
            cdel == CategoryHandler_Delete(categories, products, up, cpath)
            pget == ProductHandler_GetByID(categories, products, up, ppath)
            pdel == ProductHandler_Delete(products, up, ppath)
        IN  /\ \A h \in {Reply("GET", cget), Reply("DELETE", cdel)} :
                   h.calls = <<>> /\ h.resp = WriteError(StatusBadRequest, "Invalid category ID")
            /\ \A h \in {Reply("GET", pget), Reply("DELETE", pdel)} :
                   h.calls = <<>> /\ h.resp = WriteError(StatusBadRequest, "Invalid product ID")
            /\ cdel.cats = categories
            /\ pdel.prods = products
            /\ \A b \in ProbeCategoryBodies :
                   LET h == CategoryHandler_Update(categories, up, cpath, b)
                   IN  /\ h.calls = <<>>
                       /\ h.resp = WriteError(StatusBadRequest, "Invalid category ID")
                       /\ h.cats = categories
            /\ \A b \in ProbeProductBodies :
                   LET h == ProductHandler_Update_Begin(categories, up, ppath, b)
                   IN  /\ h.done
                       /\ h.calls = <<>>
                       /\ h.resp = WriteError(StatusBadRequest, "Invalid product ID")

ItemHandlers == {"CategoryHandler.GetByID", "CategoryHandler.Update", "CategoryHandler.Delete", "ProductHandler.GetByID", "ProductHandler.Update", "ProductHandler.Delete"}

\* the step of an item request whose path holds no integer changes nothing
C13_Frame ==
    (last'.op \in ItemHandlers /\ last'.id = 0 /\ last'.err = NotCalled)
        => (last'.status = StatusBadRequest /\ UNCHANGED <<categories, products, catSeq, prodSeq, pending>>)

C13_InvalidIdIs400 == [](C13_Rejected) /\ [][C13_Frame]_vars

\* a PUT on a product path that holds no integer was answered 400
C13_Witness ==
    /\ last.op = "ProductHandler.Update"
    /\ last.id = 0
    /\ last.err = NotCalled
    /\ last.status = StatusBadRequest
    /\ DOMAIN products # {}

(***************************************************************************)
(* C14: a POST or PUT whose body is not decodable JSON is answered 400,    *)
(* the business layer is not called, and no row is created or changed.     *)
(***************************************************************************)
Undecodable(bodies) == {b \in bodies : ~b.wellFormed}

C14_Rejected ==
    \A up \in BOOLEAN :
        /\ \A b \in Undecodable(ProbeCategoryBodies) :
               /\ LET h == CategoryHandler_Create(categories, catSeq, up, b)
                  IN  /\ h.calls = <<>>
                      /\ h.resp = WriteError(StatusBadRequest, "Invalid request body")
                      /\ h.cats = categories
                      /\ h.seq = catSeq
               /\ \A path \in CategoryProbePaths :
                      LET h == CategoryHandler_Update(categories, up, path, b)
                      IN  /\ h.calls = <<>>
                          /\ h.resp.status = StatusBadRequest
                          /\ h.cats = categories
        /\ \A b \in Undecodable(ProbeProductBodies) :
               /\ LET h == ProductHandler_Create_Begin(categories, up, b)
                  IN  /\ h.done
                      /\ h.calls = <<>>
                      /\ h.resp = WriteError(StatusBadRequest, "Invalid request body")
               /\ \A path \in ProductProbePaths :
                      LET h == ProductHandler_Update_Begin(categories, up, path, b)
                      IN  /\ h.done
                          /\ h.calls = <<>>
                          /\ h.resp.status = StatusBadRequest

\* the step of a POST or PUT that did not call the business layer changes nothing
C14_Frame ==
    (last'.op \in CreateAndUpdate /\ last'.err = NotCalled)
        => (last'.status = StatusBadRequest /\ UNCHANGED <<categories, products, catSeq, prodSeq, pending>>)

C14_UndecodableBodyIs400 == [](C14_Rejected) /\ [][C14_Frame]_vars

\* a PUT on a stored category with an undecodable body was answered 400
C14_Witness ==
    /\ last.op = "CategoryHandler.Update"
    /\ last.id \in DOMAIN categories
    /\ last.err = NotCalled
    /\ last.status = StatusBadRequest

(***************************************************************************)
(* C15: a successful POST on a collection path answers 201; the id of the  *)
(* returned entity is the identifier the store assigned to the new row,    *)
(* whatever "id" the body carried, and the other returned fields equal the *)
(* stored row.                                                             *)
(***************************************************************************)
C15_CreatedEntityCarriesAssignedId ==
    /\ \A b \in WellFormed(ProbeCategoryBodies) :
           LET h == CategoryHandler_Create(categories, catSeq, TRUE, b)
           IN  /\ h.resp.status = StatusCreated
               /\ h.resp.data.id = catSeq
               /\ DOMAIN h.cats = DOMAIN categories \cup {catSeq}
               /\ catSeq \notin DOMAIN categories
               /\ h.cats[catSeq] = CategoryRow(h.resp.data)
               /\ \A i \in DOMAIN categories : h.cats[i] = categories[i]
    /\ \A b \in WellFormed(ProbeProductBodies) :
           LET g == ProductHandler_Create_Begin(categories, TRUE, b)
               h == ProductHandler_Create_End(categories, products, prodSeq, TRUE, g.product)
           IN  DecodeProduct(b).product.category_id \in DOMAIN categories =>
                   /\ ~g.done
                   /\ h.resp.status = StatusCreated
                   /\ h.resp.data.id = prodSeq
                   /\ DOMAIN h.prods = DOMAIN products \cup {prodSeq}
                   /\ prodSeq \notin DOMAIN products
                   /\ h.prods[prodSeq] = ProductRow(h.resp.data)
                   /\ \A i \in DOMAIN products : h.prods[i] = products[i]

\* the POST whose body carried "id": 2 was answered 201 and its row has id 1
C15_Witness ==
    /\ last.op = "ProductHandler.Create"
    /\ last.status = StatusCreated
    /\ prodSeq = 2
    /\ DOMAIN products = {1}
    /\ products[1].name = "Tea"

(***************************************************************************)
(* C16: a PUT on an item path updates the row whose identifier is the one  *)
(* in the path and no other row, also when the body carries another "id";  *)
(* the identifier in the body never selects the row.                       *)
(***************************************************************************)
C16_PutWritesThePathRow ==
    /\ \A up \in BOOLEAN, path \in CategoryProbePaths, b \in WellFormed(ProbeCategoryBodies) :
           LET id == parseIDFromPath(path, CategoryPrefix).n
               h == CategoryHandler_Update(categories, up, path, b)
           IN  /\ DOMAIN h.cats = DOMAIN categories
               /\ \A i \in DOMAIN categories : i # id => h.cats[i] = categories[i]
               /\ h.resp.status = StatusOK =>
                      /\ id \in DOMAIN categories
                      /\ h.cats[id] = CategoryRow(DecodeCategory(b).category)
                      /\ h.resp.data.id = id
    /\ \A up \in BOOLEAN, path \in ProductProbePaths, b \in WellFormed(ProbeProductBodies) :
           LET id == parseIDFromPath(path, ProductPrefix).n
               g == ProductHandler_Update_Begin(categories, TRUE, path, b)
               h == ProductHandler_Update_End(categories, products, up, g.product)
           IN  ~g.done =>
                   /\ DOMAIN h.prods = DOMAIN products
                   /\ \A i \in DOMAIN products : i # id => h.prods[i] = products[i]
                   /\ h.resp.status = StatusOK =>
                          /\ id \in DOMAIN products
                          /\ h.prods[id] = ProductRow(DecodeProduct(b).product)
                          /\ h.resp.data.id = id

\* PUT /api/products/1 with the body that carries "id": 2 wrote row 1; row 2 kept its values
C16_Witness ==
    /\ last.op = "ProductHandler.Update"
    /\ last.status = StatusOK
    /\ last.id = 1
    /\ DOMAIN products = {1, 2}
    /\ products[1].name = "Tea"
    /\ products[2].name = "Noodles"

(***************************************************************************)
(* C17: every response of the category, product and health endpoints is    *)
(* one envelope: success is true exactly when the status is 2xx, a success *)
(* response carries data and no error, and a failure response carries      *)
(* success = false with an error message and no data.                      *)
(***************************************************************************)
Envelope(resp) ==
    /\ resp.success <=> resp.status \in 200..299
    /\ resp.success => (resp.data # Nil /\ resp.error = "")
    /\ ~resp.success => (resp.data = Nil /\ resp.error # "")

Refusals == {r \in RouteReplies : r.resp # NoResponse}

C17_EveryResponseIsAnEnvelope ==
    \A r \in CategoryReplies \cup ProductReplies \cup Refusals \cup HealthReplies : Envelope(r.resp)

\* the health endpoint answered while both tables hold rows
C17_Witness ==
    /\ last.op = "HealthHandler.Health"
    /\ last.status = StatusOK
    /\ DOMAIN categories # {}
    /\ DOMAIN products # {}

(***************************************************************************)
(* C18 as stated: in every reachable state every stored product has a      *)
(* non-empty name, price >= 0 and stock >= 0, and every stored category    *)
(* has a non-empty name; no POST or PUT persists an entity that breaks     *)
(* these constraints.                                                      *)
(***************************************************************************)
ValidCategoryRow(row) == row.name # ""

ValidProductRow(row) == row.name # "" /\ row.price >= 0 /\ row.stock >= 0

C18_AsStated ==
    /\ \A c \in DOMAIN categories : ValidCategoryRow(categories[c])
    /\ \A p \in DOMAIN products : ValidProductRow(products[p])
    /\ \A product \in ProductCreateArgs :
           LET r == ProductService_Create(categories, products, prodSeq, Healthy, product)
           IN  \A p \in DOMAIN r.prods \ DOMAIN products : ValidProductRow(r.prods[p])

(***************************************************************************)
(* C19 as stated: the embedded Category of a Product is populated only by  *)
(* the reads, from the stored category: Create and Update persist only     *)
(* name, price, stock and category_id, and a "category" object supplied in *)
(* a POST or PUT body is neither stored nor present in any response.       *)
(***************************************************************************)
ProductColumns == {"name", "price", "stock", "category_id"}

C19_AsStated ==
    /\ \A p \in DOMAIN products : DOMAIN products[p] = ProductColumns
    /\ \A b \in WellFormed(ProbeProductBodies) :
           LET product == DecodeProduct(b).product
               h == ProductHandler_Create_End(categories, products, prodSeq, TRUE, product)
           IN  (product.category_id \in DOMAIN categories /\ product.category # Nil) =>
                   /\ h.resp.status = StatusCreated
                   /\ h.resp.data.category = Nil
    /\ \A product \in ProductUpdateArgs :
           LET h == ProductHandler_Update_End(categories, products, TRUE, product)
           IN  (h.resp.status = StatusOK /\ product.category # Nil) => h.resp.data.category = Nil

(***************************************************************************)
(* The persistence calls of a request that reached the business layer.     *)
(***************************************************************************)
\* the one call of a handler that issues a single statement
OneCall(op) ==
    CASE op = "CategoryHandler.GetAll" -> <<"categoryRepository.GetAll">>
      [] op = "CategoryHandler.Create" -> <<"categoryRepository.Create">>
      [] op = "CategoryHandler.GetByID" -> <<"categoryRepository.GetByID">>
      [] op = "CategoryHandler.Update" -> <<"categoryRepository.Update">>
      [] op = "CategoryHandler.Delete" -> <<"categoryRepository.Delete">>
      [] op = "ProductHandler.GetAll" -> <<"productRepository.GetAll">>
      [] op = "ProductHandler.GetByID" -> <<"productRepository.GetByID">>
      [] op = "ProductHandler.Delete" -> <<"productRepository.Delete">>

SingleStatementReplies == CategoryReplies \cup ProductSingleReplies

C20_SingleStatement ==
    \A r \in SingleStatementReplies : r.err # NotCalled => r.calls = OneCall(r.op)

(***************************************************************************)
(* C20 as stated: every request that reaches the business layer issues     *)
(* exactly one persistence call when it is a read, list or delete, and     *)
(* exactly one entity persistence call when it is a create or update,      *)
(* preceded for Product by exactly one category lookup; no call is         *)
(* repeated after a store failure.                                         *)
(***************************************************************************)
C20_AsStated ==
    /\ C20_SingleStatement
    /\ \A up \in Reach, product \in ProductCreateArgs :
           ProductService_Create(categories, products, prodSeq, up, product).calls = <<"categoryRepository.GetByID", "productRepository.Create">>
    /\ \A up \in Reach, product \in ProductUpdateArgs :
           ProductService_Update(categories, products, up, product).calls = <<"categoryRepository.GetByID", "productRepository.Update">>

(***************************************************************************)
(* C20 amended: every request that reaches the business layer issues       *)
(* exactly one persistence call when it is a read, list or delete or a     *)
(* category create or update.  A product create or update issues exactly   *)
(* one category lookup, followed by exactly one product persistence call   *)
(* when the lookup returned the category and by none when it failed; no    *)
(* call is repeated after a store failure.                                 *)
(***************************************************************************)
LookupSucceeds(up, product) == up.lookup /\ product.category_id \in DOMAIN categories

C20_PersistenceCalls ==
    /\ C20_SingleStatement
    /\ \A up \in Reach, product \in ProductCreateArgs :
           ProductService_Create(categories, products, prodSeq, up, product).calls =
               IF LookupSucceeds(up, product)
               THEN <<"categoryRepository.GetByID", "productRepository.Create">>
               ELSE <<"categoryRepository.GetByID">>
    /\ \A up \in Reach, product \in ProductUpdateArgs :
           ProductService_Update(categories, products, up, product).calls =
               IF LookupSucceeds(up, product)
               THEN <<"categoryRepository.GetByID", "productRepository.Update">>
               ELSE <<"categoryRepository.GetByID">>

\* the store refused a statement (the DELETE of a referenced category) and the
\* request failed with it
C20_Witness ==
    /\ last.op = "CategoryHandler.Delete"
    /\ last.err = ErrForeignKey
    /\ last.status = StatusInternalServerError

(***************************************************************************)
(* C21: the message of every error response is one of a fixed set of       *)
(* constant strings, chosen from the request kind and the class of the     *)
(* error only: two store failures with different error texts on the same   *)
(* request get identical responses.                                        *)
(***************************************************************************)
ErrorMessages ==
    { "Invalid request body", "Invalid category ID", "Invalid product ID",
      "Category not found", "Product not found", "Method not allowed",
      "Failed to fetch categories", "Failed to fetch category", "Failed to create category",
      "Failed to update category", "Failed to delete category",
      "Failed to fetch products", "Failed to fetch product", "Failed to create product",
      "Failed to update product", "Failed to delete product",
      "Database connection failed" }

\* the class of an error of the business layer: the two sentinels, or any other
ErrorClass(err) == IF err \in {ErrNotFound, ErrCategoryNotFound} THEN err ELSE "other"

\* error texts a store may hand back, none of them a sentinel
StoreFailureTexts == {ErrBadConn, ErrForeignKey, "pq: deadlock detected", "context deadline exceeded"}

AllReplies == CategoryReplies \cup ProductReplies \cup Refusals \cup HealthReplies

Failed(replies) == {r \in replies : r.err \notin {NoErr, NotCalled}}

C21_ConstantErrorMessages ==
    /\ LET all == AllReplies
           failed == Failed(all)
       IN  /\ \A r \in all : ~r.resp.success => r.resp.error \in ErrorMessages
           /\ \A r1 \in failed : \A r2 \in failed :
                  (r1.op = r2.op /\ ErrorClass(r1.err) = ErrorClass(r2.err)) => r1.resp = r2.resp
    /\ \A e1, e2 \in StoreFailureTexts, product \in ProductCreateArgs :
           /\ ProductHandler_Create_Reply(e1, product) = ProductHandler_Create_Reply(e2, product)
           /\ ProductHandler_Update_Reply(e1, product) = ProductHandler_Update_Reply(e2, product)

\* the DELETE of a category meets both store failures: a product refers to a
\* stored category (the constraint refuses), and the statement may not arrive
C21_Witness ==
    /\ \E c \in DOMAIN categories : CategoryReferenced(products, c)
    /\ last.op = "ProductHandler.Update"
    /\ last.err = ErrForeignKey
    /\ last.status = StatusBadRequest

(***************************************************************************)
(* C22: GET /health answers 200 with status "healthy" and database         *)
(* "connected" exactly when the ping of the store succeeds and 503 when it *)
(* fails; any other method is answered 405 and the store is not pinged.    *)
(***************************************************************************)
C22_Answers ==
    \A up \in BOOLEAN, method \in Methods :
        LET h == HealthHandler_Health(up, method)
        IN  /\ h.resp.status = StatusOK <=> (method = "GET" /\ up)
            /\ h.resp.status = StatusOK =>
                   /\ h.resp.success
                   /\ h.resp.data = [status |-> "healthy", database |-> "connected"]
            /\ (method = "GET" /\ ~up) =>
                   /\ h.resp.status = StatusServiceUnavailable
                   /\ ~h.resp.success
            /\ method = "GET" => h.calls = <<"db.Ping">>
            /\ method # "GET" =>
                   /\ h.resp.status = StatusMethodNotAllowed
                   /\ h.calls = <<>>

\* with the store reachable, a health request is answered 200 or 405
C22_Step ==
    last'.op = "HealthHandler.Health" => last'.status \in {StatusOK, StatusMethodNotAllowed}

C22_HealthReportsThePing == [](C22_Answers) /\ [][C22_Step]_vars

\* /health refused a method other than GET while rows are stored
C22_Witness ==
    /\ last.op = "HealthHandler.Health"
    /\ last.status = StatusMethodNotAllowed
    /\ last.err = NotCalled
    /\ DOMAIN categories # {}

(***************************************************************************)
(* C23: in ProductService.Create and ProductService.Update the category    *)
(* lookup comes before the product persistence call; the product           *)
(* persistence call is made if and only if the lookup succeeded; a         *)
(* NotFound of the lookup is returned as CategoryNotFound and any other     *)
(* error of the lookup is returned unchanged.                              *)
(***************************************************************************)
\* what one call of the service did, against what the lookup alone returns
C23_LookupThenWrite(r, lookup, write) ==
    /\ r.calls # <<>> /\ r.calls[1] = "categoryRepository.GetByID"
    /\ write \in Range(r.calls) <=> lookup.err = NoErr
    /\ write \in Range(r.calls) => r.calls = <<"categoryRepository.GetByID", write>>
    /\ lookup.err = ErrNotFound => r.err = ErrCategoryNotFound
    /\ lookup.err \notin {NoErr, ErrNotFound} => r.err = lookup.err

C23_Service ==
    /\ \A up \in Reach, product \in ProductCreateArgs :
           C23_LookupThenWrite(ProductService_Create(categories, products, prodSeq, up, product),
                               categoryRepository_GetByID(categories, up.lookup, product.category_id),
                               "productRepository.Create")
    /\ \A up \in Reach, product \in ProductUpdateArgs :
           C23_LookupThenWrite(ProductService_Update(categories, products, up, product),
                               categoryRepository_GetByID(categories, up.lookup, product.category_id),
                               "productRepository.Update")

\* a request is between its two statements only after its lookup returned the
\* category, and a product row is written only by such a request
C23_Order ==
    /\ BagCardinality(pending') > BagCardinality(pending) =>
           /\ last'.op \in ProductWrites
           /\ last'.err = NoErr
           /\ \E q \in BagToSet(pending') :
                  /\ pending' = pending (+) SetToBag({q})
                  /\ q.product.category_id \in DOMAIN categories
    /\ (\E p \in DOMAIN products' : p \notin DOMAIN products \/ products'[p] # products[p]) =>
           \E q \in BagToSet(pending) :
               /\ pending' = pending (-) SetToBag({q})
               /\ q.op = last'.op

C23_LookupBeforeWrite == [](C23_Service) /\ [][C23_Order]_vars

\* a PUT of a stored product is between its lookup and its UPDATE
C23_Witness ==
    /\ last.op = "ProductHandler.Update"
    /\ last.err = NoErr
    /\ last.status = 0
    /\ \E q \in BagToSet(pending) : q.op = "ProductHandler.Update" /\ q.id \in DOMAIN products

(***************************************************************************)
(* Requests that raced with the DELETE of their category.                  *)
(***************************************************************************)
\* the step takes the request q out of flight: it runs q's INSERT or UPDATE
Finishes(q) == q \in BagToSet(pending) /\ pending' = pending (-) SetToBag({q})

\* q's lookup found the category, and the category is gone now
CategoryDeletedSince(q) == q.product.category_id \notin DOMAIN categories

GenericError(err) == err \notin {NoErr, NotCalled, ErrNotFound, ErrCategoryNotFound}

(***************************************************************************)
(* C24 as stated: when a concurrent request deletes the referenced         *)
(* category after the lookup of ProductService succeeded and before the    *)
(* product INSERT or UPDATE executes, the write fails with a generic       *)
(* persistence error (not CategoryNotFound, not NotFound), the handler     *)
(* answers 400, and no product row is created or changed.                  *)
(***************************************************************************)
C24_AsStated_Step ==
    \A q \in BagToSet(pending) :
        (Finishes(q) /\ CategoryDeletedSince(q)) =>
            /\ GenericError(last'.err)
            /\ last'.status = StatusBadRequest
            /\ products' = products

C24_AsStated == [][C24_AsStated_Step]_vars

(***************************************************************************)
(* C24 amended: when a concurrent request deletes the referenced category  *)
(* after the lookup succeeded and before the product INSERT or UPDATE      *)
(* executes, an INSERT, and an UPDATE whose product row exists, fails with *)
(* a generic persistence error (not CategoryNotFound, not NotFound) and    *)
(* the handler answers 400; an UPDATE whose product row does not exist     *)
(* fails with NotFound and is answered 404.  In each case no product row   *)
(* is created or changed.                                                  *)
(***************************************************************************)
\* the UPDATE of q matches a row
RowExists(q) == q.op = "ProductHandler.Create" \/ q.id \in DOMAIN products

C24_Step ==
    \A q \in BagToSet(pending) :
        (Finishes(q) /\ CategoryDeletedSince(q)) =>
            /\ products' = products
            /\ RowExists(q) => (GenericError(last'.err) /\ last'.status = StatusBadRequest)
            /\ ~RowExists(q) => (last'.err = ErrNotFound /\ last'.status = StatusNotFound)

\* the write applied to every payload whose category was deleted earlier
C24_Write ==
    /\ \A up \in BOOLEAN, product \in ProductCreateArgs :
           product.category_id \in deletedCats =>
               LET h == ProductHandler_Create_End(categories, products, prodSeq, up, product)
               IN  /\ h.err = (IF up THEN ErrForeignKey ELSE ErrBadConn)
                   /\ h.resp.status = StatusBadRequest
                   /\ h.prods = products
    /\ \A up \in BOOLEAN, product \in ProductUpdateArgs :
           (product.category_id \in deletedCats /\ product.id \in DOMAIN products) =>
               LET h == ProductHandler_Update_End(categories, products, up, product)
               IN  /\ h.err = (IF up THEN ErrForeignKey ELSE ErrBadConn)
                   /\ h.resp.status = StatusBadRequest
                   /\ h.prods = products

C24_LostCategoryFailsTheWrite == [](C24_Write) /\ [][C24_Step]_vars

\* the INSERT of a POST ran after its category was deleted
C24_Witness ==
    /\ last.op = "ProductHandler.Create"
    /\ last.err = ErrForeignKey
    /\ last.status = StatusBadRequest
    /\ deletedCats # {}

(***************************************************************************)
(* C25: when two PUT requests for the same product id run concurrently and *)
(* both succeed, the stored row afterwards equals the full payload (name,  *)
(* price, stock, category_id) of one of the two requests, never a mixture  *)
(* of fields from both.                                                    *)
(***************************************************************************)
\* the UPDATEs of two requests for the same row, one after the other
C25_BothOrders ==
    \A p1, p2 \in ProductUpdateArgs :
        p1.id = p2.id =>
            LET first == ProductService_Update_Write(categories, products, TRUE, p1)
                second == ProductService_Update_Write(categories, first.prods, TRUE, p2)
            IN  (first.err = NoErr /\ second.err = NoErr) =>
                    /\ first.prods[p1.id] = ProductRow(p1)
                    /\ second.prods[p2.id] \in {ProductRow(p1), ProductRow(p2)}
                    /\ \A p \in DOMAIN products \ {p1.id} : second.prods[p] = products[p]

\* the step of a PUT that succeeds leaves its whole payload in the row,
\* whatever other PUT of the same id is in flight
C25_Step ==
    \A q \in BagToSet(pending) :
        (Finishes(q) /\ q.op = "ProductHandler.Update" /\ last'.status = StatusOK) =>
            /\ q.id \in DOMAIN products'
            /\ products'[q.id] = ProductRow(q.product)

C25_ConcurrentPutsDoNotMix == [](C25_BothOrders) /\ [][C25_Step]_vars

\* one of two concurrent PUTs of the same product has written its payload,
\* the other, with a different payload, is still before its UPDATE
C25_Witness ==
    /\ last.op = "ProductHandler.Update"
    /\ last.status = StatusOK
    /\ last.id \in DOMAIN products
    /\ \E q \in BagToSet(pending) :
           /\ q.op = "ProductHandler.Update"
           /\ q.id = last.id
           /\ q.product.category_id \in DOMAIN categories
           /\ ProductRow(q.product) # products[last.id]

(***************************************************************************)
(* What a write does to a table.                                           *)
(***************************************************************************)
\* the rows of `before` other than `id` are in `after` as they were
SameElsewhere(before, after, id) ==
    \A i \in DOMAIN before \ {id} : i \in DOMAIN after /\ after[i] = before[i]

\* `after` is `before` with exactly one new row
AddsOneRow(before, after) ==
    \E new \in DOMAIN after :
        /\ new \notin DOMAIN before
        /\ DOMAIN after = DOMAIN before \cup {new}
        /\ SameElsewhere(before, after, new)

\* `after` is `before` with at most the fields of the row `id` changed
ChangesOneRow(before, after, id) ==
    /\ id \in DOMAIN before
    /\ DOMAIN after = DOMAIN before
    /\ SameElsewhere(before, after, id)

\* `after` is `before` without the row `id`
RemovesOneRow(before, after, id) ==
    /\ id \in DOMAIN before
    /\ DOMAIN after = DOMAIN before \ {id}
    /\ SameElsewhere(before, after, id)

CategoryOps == {"CategoryHandler.GetAll", "CategoryHandler.Create", "CategoryHandler.GetByID", "CategoryHandler.Update", "CategoryHandler.Delete"}

ProductOps == {"ProductHandler.GetAll", "ProductHandler.Create", "ProductHandler.GetByID", "ProductHandler.Update", "ProductHandler.Delete"}

(***************************************************************************)
(* C26: each successful write touches only its target: Create adds exactly *)
(* one row to its own table, Update changes the non-id fields of exactly   *)
(* one existing row and never adds or removes an identifier, Delete        *)
(* removes exactly one row, and every other row of both tables is          *)
(* unchanged (category operations never change products, product           *)
(* operations never change categories).                                    *)
(***************************************************************************)
\* the persistence operations applied to every argument in the current state
C26_Repositories ==
    /\ \A b \in WellFormed(ProbeCategoryBodies) :
           LET r == categoryRepository_Create(categories, catSeq, TRUE, DecodeCategory(b).category)
           IN  r.err = NoErr /\ AddsOneRow(categories, r.cats)
    /\ \A category \in CategoryUpdateArgs :
           LET r == categoryRepository_Update(categories, TRUE, category)
           IN  r.err = NoErr => (ChangesOneRow(categories, r.cats, category.id) /\ r.cats[category.id] = CategoryRow(category))
    /\ \A id \in ProbeCatIds :
           LET r == categoryRepository_Delete(categories, products, TRUE, id)
           IN  r.err = NoErr => RemovesOneRow(categories, r.cats, id)
    /\ \A product \in ProductCreateArgs :
           LET r == productRepository_Create(categories, products, prodSeq, TRUE, product)
           IN  r.err = NoErr => AddsOneRow(products, r.prods)
    /\ \A product \in ProductUpdateArgs :
           LET r == productRepository_Update(categories, products, TRUE, product)
           IN  r.err = NoErr => (ChangesOneRow(products, r.prods, product.id) /\ r.prods[product.id] = ProductRow(product))
    /\ \A id \in ProbeProdIds :
           LET r == productRepository_Delete(products, TRUE, id)
           IN  r.err = NoErr => RemovesOneRow(products, r.prods, id)

\* the step of a request that was answered with success
C26_Step ==
    /\ last'.op \in CategoryOps => products' = products
    /\ last'.op \in ProductOps => categories' = categories
    /\ (last'.op = "CategoryHandler.Create" /\ last'.status = StatusCreated) => AddsOneRow(categories, categories')
    /\ (last'.op = "CategoryHandler.Update" /\ last'.status = StatusOK) => ChangesOneRow(categories, categories', last'.id)
    /\ (last'.op = "CategoryHandler.Delete" /\ last'.status = StatusOK) => RemovesOneRow(categories, categories', last'.id)
    /\ (last'.op = "ProductHandler.Create" /\ last'.status = StatusCreated) => AddsOneRow(products, products')
    /\ (last'.op = "ProductHandler.Update" /\ last'.status = StatusOK) => ChangesOneRow(products, products', last'.id)
    /\ (last'.op = "ProductHandler.Delete" /\ last'.status = StatusOK) => RemovesOneRow(products, products', last'.id)

C26_WritesTouchOnlyTheirTarget == [](C26_Repositories) /\ [][C26_Step]_vars

\* a category was updated while another category and a product are stored
C26_Witness ==
    /\ last.op = "CategoryHandler.Update"
    /\ last.status = StatusOK
    /\ Cardinality(DOMAIN categories) = 2
    /\ DOMAIN products # {}
    /\ \E c \in DOMAIN categories : categories[c] # categories[last.id]

(***************************************************************************)
(* C27: GetAll, GetByID and the health check, for both entities and        *)
(* whether they succeed or fail, leave both tables unchanged; a failed     *)
(* Create, Update or Delete also leaves both tables unchanged.             *)
(***************************************************************************)
Reads == ReadAndList \cup {"HealthHandler.Health"}

\* the writes applied to every argument, their statement reaching the store
\* or not: one that returns an error returns the table it was given
C27_FailedWrites ==
    \A up \in BOOLEAN :
        /\ \A b \in WellFormed(ProbeCategoryBodies) :
               LET r == CategoryService_Create(categories, catSeq, up, DecodeCategory(b).category)
               IN  r.err # NoErr => r.cats = categories
        /\ \A category \in CategoryUpdateArgs :
               LET r == CategoryService_Update(categories, up, category)
               IN  r.err # NoErr => r.cats = categories
        /\ \A id \in ProbeCatIds :
               LET r == CategoryService_Delete(categories, products, up, id)
               IN  r.err # NoErr => r.cats = categories
        /\ \A w \in BOOLEAN, product \in ProductCreateArgs :
               LET r == ProductService_Create(categories, products, prodSeq, [lookup |-> up, write |-> w], product)
               IN  r.err # NoErr => r.prods = products
        /\ \A w \in BOOLEAN, product \in ProductUpdateArgs :
               LET r == ProductService_Update(categories, products, [lookup |-> up, write |-> w], product)
               IN  r.err # NoErr => r.prods = products
        /\ \A id \in ProbeProdIds :
               LET r == ProductService_Delete(products, up, id)
               IN  r.err # NoErr => r.prods = products

\* the step of a read, and the step of a request answered with a failure
C27_Step ==
    /\ last'.op \in Reads => (categories' = categories /\ products' = products)
    /\ last'.status >= StatusBadRequest => (categories' = categories /\ products' = products)

C27_ReadsAndFailuresChangeNothing == [](C27_FailedWrites) /\ [][C27_Step]_vars

\* a POST of a product failed at its INSERT while both tables hold rows
C27_Witness ==
    /\ last.op = "ProductHandler.Create"
    /\ last.err = ErrForeignKey
    /\ DOMAIN categories # {}
    /\ DOMAIN products # {}

(***************************************************************************)
(* C28: product reads agree with the stored rows in every reachable state: *)
(* GetAll returns exactly one entry per stored product row, and            *)
(* GetByID(id) fails with NotFound exactly when no product row has that id *)
(* (the inner join with categories never hides a stored product), so       *)
(* GetByID, Update and Delete agree on which ids exist.                    *)
(***************************************************************************)
C28_ReadsAgreeWithRows ==
    /\ JoinedIds(categories, products) = DOMAIN products
    /\ \A order \in RowOrders(JoinedIds(categories, products)) :
           LET r == productRepository_GetAll(categories, products, TRUE, order)
           IN  /\ r.err = NoErr
               /\ Len(r.list.items) = Cardinality(DOMAIN products)
               /\ \A p \in DOMAIN products :
                      Cardinality({i \in DOMAIN r.list.items : r.list.items[i].id = p}) = 1
    /\ \A id \in ProbeProdIds :
           LET get == productRepository_GetByID(categories, products, TRUE, id)
               del == productRepository_Delete(products, TRUE, id)
           IN  /\ get.err = ErrNotFound <=> id \notin DOMAIN products
               /\ get.err = NoErr <=> id \in DOMAIN products
               /\ del.err = ErrNotFound <=> get.err = ErrNotFound
    /\ \A product \in ProductUpdateArgs :
           LET get == productRepository_GetByID(categories, products, TRUE, product.id)
               upd == productRepository_Update(categories, products, TRUE, product)
           IN  upd.err = ErrNotFound <=> get.err = ErrNotFound

\* a product was read whose category has another id than the product itself,
\* and a second category is stored beside it
C28_Witness ==
    /\ last.op = "ProductHandler.GetByID"
    /\ last.status = StatusOK
    /\ products[last.id].category_id # last.id
    /\ Cardinality(DOMAIN products) = 2
    /\ deletedCats # {}

(***************************************************************************)
(* The in-memory variant that numbers a new product in the POST handler    *)
(* (package main with `var products = []Product{...}` and no counter).     *)
(* `products` is the slice.  A request is one action: the claim about this *)
(* variant speaks of sequences of requests.                                *)
(***************************************************************************)
\* how long the slice may grow in the model
MaxLen == 4

StatusNoContent == 204

\* main.Product
main_Product(id, name, price, stock) == [id |-> id, name |-> name, price |-> price, stock |-> stock]

\* var products = []Product{...}
main_products ==
    << main_Product(1, "Laptop", 15000000, 10),
       main_Product(2, "Smartphone", 5000000, 25),
       main_Product(3, "Tablet", 3000000, 15) >>

main_ProductPrefix == "/api/product/"

\* json.Decoder.Decode into a zero main.Product
main_DecodeProduct(body) ==
    IF ~body.wellFormed THEN [err |-> "invalid character", product |-> main_Product(0, "", 0, 0)]
    ELSE [err |-> NoErr, product |-> main_Product(Member(body, "id", 0), Member(body, "name", ""), Member(body, "price", 0), Member(body, "stock", 0))]

\* `for i, product := range list { if product.ID == id {`: the first index
\* whose element has the id, 0 when the loop ends without one
FirstWithID(list, id) ==
    IF \E i \in DOMAIN list : list[i].id = id
    THEN CHOOSE i \in DOMAIN list : list[i].id = id /\ \A j \in 1..(i - 1) : list[j].id # id
    ELSE 0

\* append(list[:i], list[i+1:]...)
RemoveAt(list, i) == SubSeq(list, 1, i - 1) \o SubSeq(list, i + 1, Len(list))

\* case "POST" of the /api/product closure
part003_postProduct(list, body) ==
    LET d == main_DecodeProduct(body)
        newProduct == [d.product EXCEPT !.id = Len(list) + 1]
    IN  IF d.err # NoErr
        THEN [products |-> list, resp |-> [status |-> StatusBadRequest, data |-> Nil]]
        ELSE [products |-> Append(list, newProduct), resp |-> [status |-> StatusCreated, data |-> newProduct]]

part003_getProductByID(list, path) ==
    LET p == Atoi(TrimPrefix(path, main_ProductPrefix))
        i == FirstWithID(list, p.n)
    IN  IF p.err # NoErr
        THEN [id |-> 0, resp |-> [status |-> StatusBadRequest, data |-> Nil]]
        ELSE IF i # 0
        THEN [id |-> p.n, resp |-> [status |-> StatusOK, data |-> list[i]]]
        ELSE [id |-> p.n, resp |-> [status |-> StatusNotFound, data |-> Nil]]

part003_updateProduct(list, path, body) ==
    LET p == Atoi(TrimPrefix(path, main_ProductPrefix))
        d == main_DecodeProduct(body)
        i == FirstWithID(list, p.n)
        updated == [list EXCEPT ![i].name = d.product.name, ![i].price = d.product.price, ![i].stock = d.product.stock]
    IN  IF p.err # NoErr
        THEN [id |-> 0, products |-> list, resp |-> [status |-> StatusBadRequest, data |-> Nil]]
        ELSE IF d.err # NoErr
        THEN [id |-> p.n, products |-> list, resp |-> [status |-> StatusBadRequest, data |-> Nil]]
        ELSE IF i # 0
        THEN [id |-> p.n, products |-> updated, resp |-> [status |-> StatusOK, data |-> updated[i]]]
        ELSE [id |-> p.n, products |-> list, resp |-> [status |-> StatusNotFound, data |-> Nil]]

part003_deleteProduct(list, path) ==
    LET p == Atoi(TrimPrefix(path, main_ProductPrefix))
        i == FirstWithID(list, p.n)
    IN  IF p.err # NoErr
        THEN [id |-> 0, products |-> list, resp |-> [status |-> StatusBadRequest, data |-> Nil]]
        ELSE IF i # 0
        THEN [id |-> p.n, products |-> RemoveAt(list, i), resp |-> [status |-> StatusNoContent, data |-> Nil]]
        ELSE [id |-> p.n, products |-> list, resp |-> [status |-> StatusNotFound, data |-> Nil]]

\* the requests sent to the variant
main_ProductPaths == {<<main_ProductPrefix>> \o t : t \in PathTails(1..(MaxLen + 1))}

main_ProductBodies ==
    { JSONObject({"id", "name", "price", "stock"}, main_Product(1, "Mouse", 150000, 40)),
      JSONObject({"name"}, main_Product(0, "Cable", 0, 0)),
      NotJSON(main_Product(0, "", 0, 0)) }

\* the variant after start: the three products of the slice literal
LenPlusOneInit ==
    /\ products = main_products
    /\ categories = <<>>
    /\ catSeq = 0
    /\ prodSeq = 0
    /\ pending = EmptyBag
    /\ deletedCats = {}
    /\ deletedProds = {}
    /\ last = Outcome("init", 0, NotCalled, NoResponse)

\* GET /api/product
ListProducts ==
    /\ last' = Outcome("GET /api/product", 0, NotCalled, [status |-> StatusOK, data |-> products])
    /\ UNCHANGED <<categories, products, catSeq, prodSeq, pending, deletedCats, deletedProds>>

\* POST /api/product
PostProduct ==
    /\ Len(products) < MaxLen
    /\ \E body \in main_ProductBodies :
         LET h == part003_postProduct(products, body)
         IN  /\ products' = h.products
             /\ last' = Outcome("POST /api/product", IF h.resp.data = Nil THEN 0 ELSE h.resp.data.id, NotCalled, h.resp)
    /\ UNCHANGED <<categories, catSeq, prodSeq, pending, deletedCats, deletedProds>>

\* GET /api/product/{id}
GetProduct ==
    /\ \E path \in main_ProductPaths :
         LET h == part003_getProductByID(products, path)
         IN  last' = Outcome("getProductByID", h.id, NotCalled, h.resp)
    /\ UNCHANGED <<categories, products, catSeq, prodSeq, pending, deletedCats, deletedProds>>

\* PUT /api/product/{id}
PutProduct ==
    /\ \E path \in main_ProductPaths, body \in main_ProductBodies :
         LET h == part003_updateProduct(products, path, body)
         IN  /\ products' = h.products
             /\ last' = Outcome("updateProduct", h.id, NotCalled, h.resp)
    /\ UNCHANGED <<categories, catSeq, prodSeq, pending, deletedCats, deletedProds>>

\* DELETE /api/product/{id}
DeleteProduct ==
    /\ \E path \in main_ProductPaths :
         LET h == part003_deleteProduct(products, path)
         IN  /\ products' = h.products
             /\ last' = Outcome("deleteProduct", h.id, NotCalled, h.resp)
    /\ UNCHANGED <<categories, catSeq, prodSeq, pending, deletedCats, deletedProds>>

LenPlusOneNext ==
    \/ ListProducts
    \/ PostProduct
    \/ GetProduct
    \/ PutProduct
    \/ DeleteProduct

LenPlusOneSpec == LenPlusOneInit /\ [][LenPlusOneNext]_vars

(***************************************************************************)
(* C29 as stated: in the in-memory variant that assigns the new id inside  *)
(* the POST /api/product handler, after any sequence of POST and DELETE    *)
(* requests all products in the list have pairwise distinct ids, and a     *)
(* GET, PUT or DELETE by id addresses exactly one product.                 *)
(***************************************************************************)
C29_AsStated ==
    /\ \A i, j \in DOMAIN products : i # j => products[i].id # products[j].id
    /\ \A path \in main_ProductPaths :
           part003_getProductByID(products, path).resp.status = StatusOK =>
               Cardinality({i \in DOMAIN products : products[i].id = part003_getProductByID(products, path).id}) = 1

(***************************************************************************)
(* The in-memory variant with the counters nextID and nextCategoryID       *)
(* (src/main.go).  net/http runs every request on a goroutine of its own   *)
(* and the handlers take no lock, so the loads and stores of two POST      *)
(* requests on the package-level variables interleave.  `products` and     *)
(* `categories` are the slices, `prodSeq` is nextID, `catSeq` is           *)
(* nextCategoryID, and `pending` holds, per handler, the bag of the POST   *)
(* requests with the statement each has reached; a request that was        *)
(* answered 201 stays in the bag as "done".                                *)
(***************************************************************************)
\* how many POST requests each of the two handlers is sent
MaxPosts == 2

\* var categories = []Category{...}
main_categories ==
    << Category(1, "Electronics", "Electronic devices and gadgets"),
       Category(2, "Furniture", "Home and office furniture") >>

\* json.Decoder.Decode into a zero main.Category (the fields of domain.Category)
main_DecodeCategory(body) == DecodeCategory(body)

Creators == {"createProduct", "createCategory"}

\* the body of a POST decoded by its handler
main_Decode(creator, body) ==
    IF creator = "createProduct"
    THEN [err |-> main_DecodeProduct(body).err, entity |-> main_DecodeProduct(body).product]
    ELSE [err |-> main_DecodeCategory(body).err, entity |-> main_DecodeCategory(body).category]

main_Bodies(creator) == IF creator = "createProduct" THEN main_ProductBodies ELSE CategoryBodies

\* the slice and the counter a handler works on
SliceOf(creator) == IF creator = "createProduct" THEN products ELSE categories

CounterOf(creator) == IF creator = "createProduct" THEN prodSeq ELSE catSeq

\* a POST request on its goroutine: the statement it is about to run, its
\* local newProduct / newCategory, and the values it has loaded
Goroutine(pc, entity, counter, slice) == [pc |-> pc, entity |-> entity, counter |-> counter, slice |-> slice]

\* newProduct.ID = nextID: the counter is loaded into the entity
main_create_AssignID(g, counter) == [g EXCEPT !.entity.id = counter, !.pc = "nextID++ load"]

\* nextID++, its load
main_create_LoadCounter(g, counter) == [g EXCEPT !.counter = counter, !.pc = "nextID++ store"]

\* nextID++, its store: what the counter becomes
main_create_StoreCounter(g) == g.counter + 1

\* append(products, newProduct), the load of the slice
main_create_LoadSlice(g, slice) == [g EXCEPT !.slice = slice, !.pc = "append store"]

\* products = append(...), the store of the slice: what the slice becomes
main_create_StoreSlice(g) == Append(g.slice, g.entity)

Moved(creator, from, to) == [pending EXCEPT ![creator] = (pending[creator] (-) SetToBag({from})) (+) SetToBag({to})]

At(creator, pc) == {g \in BagToSet(pending[creator]) : g.pc = pc}

RaceInit ==
    /\ products = main_products
    /\ prodSeq = 4
    /\ categories = main_categories
    /\ catSeq = 3
    /\ pending = [creator \in Creators |-> EmptyBag]
    /\ deletedCats = {}
    /\ deletedProds = {}
    /\ last = Outcome("init", 0, NotCalled, NoResponse)

\* a POST arrives: the body is decoded and, when it is JSON, the counter is
\* loaded into the ID of the new entity
CreateAssignID ==
    /\ \E creator \in Creators :
         \E body \in main_Bodies(creator) :
             LET d == main_Decode(creator, body)
                 g == main_create_AssignID(Goroutine("", d.entity, 0, <<>>), CounterOf(creator))
             IN  /\ BagCardinality(pending[creator]) < MaxPosts
                 /\ IF d.err # NoErr
                    THEN /\ pending' = pending
                         /\ last' = Outcome(creator, 0, NotCalled, [status |-> StatusBadRequest])
                    ELSE /\ pending' = [pending EXCEPT ![creator] = pending[creator] (+) SetToBag({g})]
                         /\ last' = Outcome(creator, g.entity.id, NotCalled, NoResponse)
    /\ UNCHANGED <<categories, products, catSeq, prodSeq, deletedCats, deletedProds>>

\* nextID++ loads the counter
CreateLoadCounter ==
    /\ \E creator \in Creators :
         \E g \in At(creator, "nextID++ load") :
             /\ pending' = Moved(creator, g, main_create_LoadCounter(g, CounterOf(creator)))
             /\ last' = Outcome(creator, g.entity.id, NotCalled, NoResponse)
    /\ UNCHANGED <<categories, products, catSeq, prodSeq, deletedCats, deletedProds>>

\* nextID++ stores the counter
CreateStoreCounter ==
    /\ \E creator \in Creators :
         \E g \in At(creator, "nextID++ store") :
             /\ prodSeq' = IF creator = "createProduct" THEN main_create_StoreCounter(g) ELSE prodSeq
             /\ catSeq' = IF creator = "createCategory" THEN main_create_StoreCounter(g) ELSE catSeq
             /\ pending' = Moved(creator, g, [g EXCEPT !.pc = "append load"])
             /\ last' = Outcome(creator, g.entity.id, NotCalled, NoResponse)
    /\ UNCHANGED <<categories, products, deletedCats, deletedProds>>

\* append loads the slice
CreateLoadSlice ==
    /\ \E creator \in Creators :
         \E g \in At(creator, "append load") :
             /\ pending' = Moved(creator, g, main_create_LoadSlice(g, SliceOf(creator)))
             /\ last' = Outcome(creator, g.entity.id, NotCalled, NoResponse)
    /\ UNCHANGED <<categories, products, catSeq, prodSeq, deletedCats, deletedProds>>

\* the result of append is stored, and the request is answered 201
CreateStoreSlice ==
    /\ \E creator \in Creators :
         \E g \in At(creator, "append store") :
             /\ products' = IF creator = "createProduct" THEN main_create_StoreSlice(g) ELSE products
             /\ categories' = IF creator = "createCategory" THEN main_create_StoreSlice(g) ELSE categories
             /\ pending' = Moved(creator, g, [g EXCEPT !.pc = "done"])
             /\ last' = Outcome(creator, g.entity.id, NotCalled, [status |-> StatusCreated])
    /\ UNCHANGED <<catSeq, prodSeq, deletedCats, deletedProds>>

RaceNext ==
    \/ CreateAssignID
    \/ CreateLoadCounter
    \/ CreateStoreCounter
    \/ CreateLoadSlice
    \/ CreateStoreSlice

RaceSpec == RaceInit /\ [][RaceNext]_vars

(***************************************************************************)
(* C30 as stated: in the in-memory variant with the nextID and             *)
(* nextCategoryID counters, under every interleaving of concurrent POST    *)
(* requests each request that answers 201 got an id no other request got,  *)
(* and every created entity is present in the list afterwards (no lost     *)
(* append, no duplicate id).                                               *)
(***************************************************************************)
\* the requests of a handler that were answered 201
Answered(creator) == At(creator, "done")

\* every request of the handler has been answered
Quiet(creator) == \A g \in BagToSet(pending[creator]) : g.pc = "done"

C30_AsStated ==
    \A creator \in Creators :
        /\ \A g \in Answered(creator) :
               /\ CopiesIn(g, pending[creator]) = 1
               /\ \A h \in Answered(creator) : h # g => h.entity.id # g.entity.id
        /\ Quiet(creator) =>
               \A g \in Answered(creator) : \E i \in DOMAIN SliceOf(creator) : SliceOf(creator)[i] = g.entity
        /\ \A i, j \in DOMAIN SliceOf(creator) : i # j => SliceOf(creator)[i].id # SliceOf(creator)[j].id

====
